---- MODULE Spec2Model ----
(***************************************************************************)
(* Model of the shader layer of rust_opengl (src/src/shader.rs):           *)
(* ShaderManager (named shader stages), ShaderProgram (attach, link, use,  *)
(* typed uniform upload, reflection) and their destructors, running        *)
(* against a GPU context whose answers are nondeterministic; and of the    *)
(* geometry layer (src/src/geometry.rs): the torus generator and           *)
(* TriangleMesh, the owner of GPU buffers and a vertex array.              *)
(*                                                                         *)
(* A shader handle denotes the object made by one create_shader call.      *)
(* Every operation is one atomic step (the code is single-threaded) and    *)
(* records in lastOp what it returned, the GPU calls it issued in order    *)
(* and the log records it wrote.                                           *)
(***************************************************************************)
EXTENDS Integers, Sequences, FiniteSets, TLC

\* ---------------------------------------------------------------- bounds
\* Shader objects the GPU context hands out over one run.
MaxShaders == 3
\* Longest attached-stage list of a program.
MaxAttach == 2
\* Largest active-uniform count the driver reports after a link.
MaxUniforms == 2
\* Largest num_sides and num_rings passed to new_torus.
MaxSides == 4
MaxRings == 4
MaxMajor == 5
MaxMinor == 6
MaxEvents == 3

\* ------------------------------------------------------------ input sets
\* Keys callers pass to load_shader / unload_shader / attach_shader.
Names == {"frag", "vert"}
\* BTreeMap<String, _> iterates its keys in ascending order.
NameOrder == <<"frag", "vert">>
\* Uniform names the driver may report; "nonexistent" is never reported.
UNames == {"color", "mvp"}
QueryNames == UNames \cup {"nonexistent"}
\* ShaderProgram instances of one run.
Progs == {"p1", "p2"}
\* The first of them.
OneProg == {"p1"}
\* Driver info-log texts.
InfoLogs == {"log_a", "log_b"}
Handles == 1..MaxShaders
\* Uniform locations the driver may resolve a name to.
Locs == {7}
NoProg == "-"

\* --------------------------------------------------------- Option values
\* Option<T>: None, or Some(v).
None == [some |-> FALSE, v |-> 0]
Some(x) == [some |-> TRUE, v |-> x]
\* Option<ActiveUniform> / Option<ActiveAttribute>: name and GL type.
Item(n, ty) == [some |-> TRUE, v |-> [name |-> n, ty |-> ty]]
NoItem == [some |-> FALSE, v |-> [name |-> "", ty |-> ""]]

\* Result<(), SimpleError>
Ok == [ok |-> TRUE, err |-> ""]
Err(msg) == [ok |-> FALSE, err |-> msg]

\* ------------------------------------------------------------ GPU calls
\* One call on glow::Context: the function, the program it names (NoProg
\* when none), the shader handle or index it names (0 when none), its
\* string argument or the name it returned, the Option location it was
\* passed or returned, and the components a uniform call uploads.
Call(c, p, h, n) == [call |-> c, prog |-> p, h |-> h, name |-> n, loc |-> None, val |-> <<>>]
\* An upload that would not pass the location on.
Upload_no_location(c, l, data) == [call |-> c, prog |-> NoProg, h |-> 0, name |-> "", loc |-> None, val |-> data]

\* A uniform upload: the Option<&UniformLocation> and the components.
Upload(c, l, data) == [call |-> c, prog |-> NoProg, h |-> 0, name |-> "", loc |-> l, val |-> data]

UploadCalls == {"uniform_1_f32", "uniform_2_f32", "uniform_3_f32", "uniform_4_f32",
                "uniform_1_i32", "uniform_1_u32", "uniform_matrix_2_f32_slice",
                "uniform_matrix_3_f32_slice", "uniform_matrix_4_f32_slice"}

\* A uniform_matrix_*_f32_slice upload: the location, the transpose
\* argument and the slice.
MatrixUpload(c, l, transpose, data) ==
    [Upload(c, l, data) EXCEPT !.name = IF transpose THEN "transpose" ELSE "no transpose"]

\* A logger that would write every record at the info level.
Log_as_info(level, msg) == [level |-> "info", msg |-> msg, idx |-> 0, ty |-> "", name |-> ""]

\* A log record of the `log` crate: the level, the message text, and the
\* index, type keyword and name a reflection record formats into it.
Log(level, msg) == [level |-> level, msg |-> msg, idx |-> 0, ty |-> "", name |-> ""]
LogItem(level, label, i, ty, n) ==
    [level |-> level, msg |-> label, idx |-> i, ty |-> ty, name |-> n]

\* The calls of `s` whose function is in `fs`, in order.
CallsOf(s, fs) == SelectSeq(s, LAMBDA c : c.call \in fs)

\* --------------------------------------------------------------- state
VARIABLES
    gpuShaders,   \* GPU: handle -> [st, compiled, deletes]
    nextShader,   \* GPU: next handle create_shader returns
    gpuProgs,     \* GPU: program -> [st, linkStatus, infoLog]
    mgrSt,        \* ShaderManager: "alive" | "dropped"
    mgrShaders,   \* ShaderManager.shaders: name -> handle
    appRef,       \* the application still holds the manager (value or Arc)
    prog,         \* ShaderProgram: p -> [st, linked, shaders, uniform_locations]
    rebuilds,     \* history: p -> times link() cleared and refilled the table
    linkFailed,   \* history: p -> some link() of p has failed
    gpuBuffers,   \* GPU: buffer handle -> [st, deletes]
    gpuVertexArrays, \* GPU: vertex-array handle -> [st, deletes]
    mesh,         \* TriangleMesh: [st, vertex_count, vertex_array, buffers]
    app,          \* the application of main.rs: [pc, version, program, vertex_array, exit, events]
    lastOp        \* the last operation: what it returned and issued

vars == <<gpuShaders, nextShader, gpuProgs, mgrSt, mgrShaders, appRef, prog,
          rebuilds, linkFailed, gpuBuffers, gpuVertexArrays, mesh, app, lastOp>>

gpuVars == <<gpuShaders, nextShader, gpuProgs>>
mgrVars == <<mgrSt, mgrShaders, appRef>>
meshVars == <<gpuBuffers, gpuVertexArrays, mesh>>
\* What the operations of TriangleMesh leave alone.
shaderVars == <<gpuVars, mgrVars, prog, rebuilds, linkFailed>>

\* The record an operation leaves in lastOp. `calls` are the GPU calls of
\* the operation itself; `glue` are the calls of Drop for ShaderManager
\* when the operation released the last reference to the manager.
\* `ret` is the Option a lookup returned, `value` the GlslValue passed
\* to set_uniform_value, `ext` whether the context then listed
\* ARB_gpu_shader_fp64, `panic` whether the operation panicked, `args`
\* the arguments of a TriangleMesh constructor or, for link(), the
\* driver's answers about the active uniforms.
OpRec(op, p, key, res, calls, logs, glue) ==
    [op |-> op, prog |-> p, key |-> key, res |-> res, calls |-> calls,
     logs |-> logs, glue |-> glue, ret |-> [some |-> FALSE, v |-> 0],
     value |-> [tag |-> "", data |-> <<>>, b |-> FALSE], ext |-> FALSE,
     panic |-> FALSE, args |-> <<>>]

\* ------------------------------------------------------- ShaderManager
\* BTreeMap::new()
EmptyMap == << >>

\* A map whose insert keeps the value already stored under k.
MapInsert_keep(m, k, v) == [x \in (DOMAIN m) \cup {k} |-> IF x \in DOMAIN m THEN m[x] ELSE v]

\* BTreeMap::insert: the entry for k is set, a previous value is overwritten.
MapInsert(m, k, v) == [x \in (DOMAIN m) \cup {k} |-> IF x = k THEN v ELSE m[x]]

\* BTreeMap::remove
MapRemove(m, k) == [x \in (DOMAIN m) \ {k} |-> m[x]]

\* ShaderManager::has_shader
has_shader(m, k) == k \in DOMAIN m

\* ShaderManager::get_shader: Option<&Shader>
get_shader(m, k) == IF k \in DOMAIN m THEN Some(m[k]) ELSE None

\* The values of a map in ascending key order (BTreeMap iteration).
RECURSIVE ValuesInOrder(_, _)
ValuesInOrder(m, i) ==
    IF i > Len(NameOrder) THEN <<>>
    ELSE (IF NameOrder[i] \in DOMAIN m THEN <<m[NameOrder[i]]>> ELSE <<>>)
         \o ValuesInOrder(m, i + 1)

\* context.delete_shader(h) on the GPU's shader objects.
GpuDeleteShader(g, h) ==
    [g EXCEPT ![h] = [@ EXCEPT !.st = "deleted", !.deletes = @ + 1]]

RECURSIVE GpuDeleteAll(_, _)
GpuDeleteAll(g, hs) ==
    IF hs = <<>> THEN g ELSE GpuDeleteAll(GpuDeleteShader(g, Head(hs)), Tail(hs))

\* Into<u32> for ShaderType, on the names of glow's shader-type constants.
ShaderTypeInto(ty) ==
    CASE ty = "Vertex" -> "VERTEX_SHADER"
      [] ty = "Fragment" -> "FRAGMENT_SHADER"
      [] ty = "Geometry" -> "GEOMETRY_SHADER"
      [] ty = "TessControl" -> "TESS_CONTROL_SHADER"
      [] ty = "TessEvaluation" -> "TESS_EVALUATION_SHADER"
      [] ty = "Compute" -> "COMPUTE_SHADER"

\* A load_shader that would register the stage before looking at the
\* compile status.
load_shader_insert_first(m, key, ty, h, io, created, compiled, log) ==
    IF ~io THEN
        [map |-> m, res |-> Err("io"), calls |-> <<>>, made |-> FALSE, compiled |-> FALSE]
    ELSE IF ~created THEN
        [map |-> m, res |-> Err("create_shader"),
         calls |-> <<Call("create_shader", NoProg, 0, ShaderTypeInto(ty))>>,
         made |-> FALSE, compiled |-> FALSE]
    ELSE
        [map |-> MapInsert(m, key, h), res |-> IF compiled THEN Ok ELSE Err(log),
         calls |-> <<Call("create_shader", NoProg, h, ShaderTypeInto(ty)),
                     Call("shader_source", NoProg, h, ""),
                     Call("compile_shader", NoProg, h, ""),
                     Call("get_shader_compile_status", NoProg, h, "")>>
                   \o (IF compiled THEN <<>>
                       ELSE <<Call("get_shader_info_log", NoProg, h, log)>>),
         made |-> TRUE, compiled |-> compiled]

\* ShaderManager::load_shader. `ty` is the ShaderType, `io` is whether read_to_string succeeds,
\* `created` whether create_shader succeeds, `compiled` the driver's
\* compile status, `log` the shader info log. `h` is the handle
\* create_shader would return. Yields the new map, the result, the GPU
\* calls and whether a shader object was made.
load_shader(m, key, ty, h, io, created, compiled, log) ==
    IF ~io THEN
        [map |-> m, res |-> Err("io"), calls |-> <<>>, made |-> FALSE, compiled |-> FALSE]
    ELSE IF ~created THEN
        [map |-> m, res |-> Err("create_shader"),
         calls |-> <<Call("create_shader", NoProg, 0, ShaderTypeInto(ty))>>,
         made |-> FALSE, compiled |-> FALSE]
    ELSE IF ~compiled THEN
        [map |-> m, res |-> Err(log),
         calls |-> <<Call("create_shader", NoProg, h, ShaderTypeInto(ty)),
                     Call("shader_source", NoProg, h, ""),
                     Call("compile_shader", NoProg, h, ""),
                     Call("get_shader_compile_status", NoProg, h, ""),
                     Call("get_shader_info_log", NoProg, h, log)>>,
         made |-> TRUE, compiled |-> FALSE]
    ELSE
        [map |-> MapInsert(m, key, h), res |-> Ok,
         calls |-> <<Call("create_shader", NoProg, h, ShaderTypeInto(ty)),
                     Call("shader_source", NoProg, h, ""),
                     Call("compile_shader", NoProg, h, ""),
                     Call("get_shader_compile_status", NoProg, h, "")>>,
         made |-> TRUE, compiled |-> TRUE]

\* An unload_shader that would forget the entry without delete_shader.
unload_shader_remove_only(m, key) ==
    IF get_shader(m, key).some THEN
        [map |-> MapRemove(m, key), calls |-> <<>>]
    ELSE
        [map |-> m, calls |-> <<>>]

\* unload_shader without the remove at the end: the entry stays.
unload_shader_no_remove(m, key) ==
    IF get_shader(m, key).some THEN
        [map |-> m, calls |-> <<Call("delete_shader", NoProg, m[key], "")>>]
    ELSE
        [map |-> m, calls |-> <<>>]

\* ShaderManager::unload_shader: the new map and the GPU calls.
unload_shader(m, key) ==
    IF get_shader(m, key).some THEN
        [map |-> MapRemove(m, key),
         calls |-> <<Call("delete_shader", NoProg, m[key], "")>>]
    ELSE
        [map |-> m, calls |-> <<>>]

\* Drop for ShaderManager: one delete_shader per entry, then clear().
ManagerDrop(m) ==
    [map |-> EmptyMap,
     calls |-> [i \in 1..Len(ValuesInOrder(m, 1)) |->
                   Call("delete_shader", NoProg, ValuesInOrder(m, 1)[i], "")]]

\* The shader handles a sequence of GPU calls deletes, in order.
DeletedBy(calls) ==
    [i \in 1..Len(CallsOf(calls, {"delete_shader"})) |->
        CallsOf(calls, {"delete_shader"})[i].h]

\* -------------------------------------------------------- ShaderProgram
\* ShaderProgram::new, after create_program succeeded.
NewProgram ==
    [st |-> "alive", linked |-> FALSE, shaders |-> <<>>, uniform_locations |-> EmptyMap]

\* A ShaderProgram that has not been constructed.
NoProgram ==
    [st |-> "none", linked |-> FALSE, shaders |-> <<>>, uniform_locations |-> EmptyMap]

\* An attach_shader that would skip a stage already in the list.
attach_shader_dedup(pr, p, m, key) ==
    IF get_shader(m, key).some
       /\ \A i \in 1..Len(pr.shaders) : pr.shaders[i] # get_shader(m, key).v THEN
        [pr |-> [pr EXCEPT !.shaders = Append(@, get_shader(m, key).v)],
         calls |-> <<Call("attach_shader", p, get_shader(m, key).v, "")>>]
    ELSE
        [pr |-> pr, calls |-> <<>>]

\* ShaderProgram::attach_shader on program object pr with handle p; m is
\* the map of the shader manager the program refers to.
attach_shader(pr, p, m, key) ==
    IF get_shader(m, key).some THEN
        [pr |-> [pr EXCEPT !.shaders = Append(@, get_shader(m, key).v)],
         calls |-> <<Call("attach_shader", p, get_shader(m, key).v, "")>>]
    ELSE
        [pr |-> pr, calls |-> <<>>]

\* context.get_uniform_location(program, name) with its answer.
GetLocation(p, n, answer) == [Call("get_uniform_location", p, 0, n) EXCEPT !.loc = answer]

\* A loop that would end at the first index the driver has nothing for.
RECURSIVE EnumUniforms_until_none(_, _, _, _, _, _)
EnumUniforms_until_none(p, act, lc, i, table, calls) ==
    IF i >= Len(act) THEN [table |-> table, calls |-> calls]
    ELSE IF act[i + 1].some THEN
        EnumUniforms_until_none(p, act, lc, i + 1,
            MapInsert(table, act[i + 1].v.name, lc[act[i + 1].v.name]),
            calls \o <<Call("get_active_uniform", p, i, act[i + 1].v.name),
                       GetLocation(p, act[i + 1].v.name, lc[act[i + 1].v.name])>>)
    ELSE
        [table |-> table, calls |-> calls \o <<Call("get_active_uniform", p, i, "")>>]

\* The loop of link(): for i in 0..count, get_active_uniform(program, i);
\* for Some(uniform), insert name -> get_uniform_location(program, name).
\* `act` are the driver's answers to get_active_uniform by index, `lc`
\* its answers to get_uniform_location by name; i counts from 0. Yields
\* the table and the GPU calls.
RECURSIVE EnumUniforms(_, _, _, _, _, _)
EnumUniforms(p, act, lc, i, table, calls) ==
    IF i >= Len(act) THEN [table |-> table, calls |-> calls]
    ELSE IF act[i + 1].some THEN
        EnumUniforms(p, act, lc, i + 1,
            MapInsert(table, act[i + 1].v.name, lc[act[i + 1].v.name]),
            calls \o <<Call("get_active_uniform", p, i, act[i + 1].v.name),
                       GetLocation(p, act[i + 1].v.name, lc[act[i + 1].v.name])>>)
    ELSE
        EnumUniforms(p, act, lc, i + 1, table,
            calls \o <<Call("get_active_uniform", p, i, "")>>)

\* A link failure that would nevertheless set the linked flag.
LinkFailure_sticky(pr, p, log) ==
    [pr |-> [pr EXCEPT !.linked = TRUE], res |-> Err(log),
     calls |-> <<Call("link_program", p, 0, ""),
                 Call("get_program_link_status", p, 0, ""),
                 Call("get_program_info_log", p, 0, "")>>,
     rebuilt |-> FALSE]

\* link(), the link has failed: the error carries get_program_info_log.
LinkFailure(pr, p, log) ==
    [pr |-> pr, res |-> Err(log),
     calls |-> <<Call("link_program", p, 0, ""),
                 Call("get_program_link_status", p, 0, ""),
                 Call("get_program_info_log", p, 0, "")>>,
     rebuilt |-> FALSE]

\* A link success that would rebuild the table and leave linked false.
LinkSuccess_no_flag(pr, p, act, lc) ==
    [pr |-> [pr EXCEPT !.uniform_locations =
                           EnumUniforms(p, act, lc, 0, EmptyMap, <<>>).table],
     res |-> Ok,
     calls |-> <<Call("link_program", p, 0, ""),
                 Call("get_program_link_status", p, 0, ""),
                 Call("get_active_uniforms", p, 0, "")>>
               \o EnumUniforms(p, act, lc, 0, EmptyMap, <<>>).calls,
     rebuilt |-> TRUE]

\* link(), the link has succeeded: uniform_locations.clear(), the loop
\* over the active uniforms, linked = true.
LinkSuccess(pr, p, act, lc) ==
    [pr |-> [pr EXCEPT !.uniform_locations =
                           EnumUniforms(p, act, lc, 0, EmptyMap, <<>>).table,
                       !.linked = TRUE],
     res |-> Ok,
     calls |-> <<Call("link_program", p, 0, ""),
                 Call("get_program_link_status", p, 0, ""),
                 Call("get_active_uniforms", p, 0, "")>>
               \o EnumUniforms(p, act, lc, 0, EmptyMap, <<>>).calls,
     rebuilt |-> TRUE]

\* link without the `if !self.linked` guard.
link_always(pr, p, status, log, act, lc) ==
    IF ~status THEN LinkFailure(pr, p, log) ELSE LinkSuccess(pr, p, act, lc)

\* ShaderProgram::link. `status` and `log` are the link status and the
\* info log link_program leaves in the GPU's program object, `act` and
\* `lc` the driver's answers about its active uniforms (all read only
\* when the program is not yet linked). Yields the new program object,
\* the result, the GPU calls, and whether the uniform table was cleared
\* and refilled.
link(pr, p, status, log, act, lc) ==
    IF pr.linked THEN
        [pr |-> pr, res |-> Ok, calls |-> <<>>, rebuilt |-> FALSE]
    ELSE IF ~status THEN
        LinkFailure(pr, p, log)
    ELSE
        LinkSuccess(pr, p, act, lc)

\* ShaderProgram::assert_linked
assert_linked(pr) ==
    IF ~pr.linked THEN Err("Shader program not been linked") ELSE Ok

\* use_program without assert_linked.
use_program_unchecked(pr, p) ==
    [res |-> Ok, calls |-> <<Call("use_program", p, 0, "")>>]

\* ShaderProgram::use_program: the result and the GPU calls.
use_program(pr, p) ==
    IF ~assert_linked(pr).ok THEN
        [res |-> assert_linked(pr), calls |-> <<>>]
    ELSE
        [res |-> Ok, calls |-> <<Call("use_program", p, 0, "")>>]

\* glow::TRUE and glow::FALSE as u32
GL_TRUE == 1
GL_FALSE == 0

\* GlslValue: the tag, the float/int components (a matrix in the
\* column-major order of as_slice()), and the payload of Bool.
Value(tag, data, b) == [tag |-> tag, data |-> data, b |-> b]

GlslValues ==
    {Value("Float32", <<5>>, FALSE),
     Value("Float32Vec2", <<1, 2>>, FALSE),
     Value("Float32Vec3", <<1, 2, 3>>, FALSE),
     Value("Float32Vec4", <<1, 2, 3, 4>>, FALSE),
     Value("Float64", <<5>>, FALSE),
     Value("Int32", <<-5>>, FALSE),
     Value("UnsignedInt32", <<5>>, FALSE),
     Value("Float32Mat2", <<1, 2, 3, 4>>, FALSE)}
    \cup {Value("Bool", <<>>, b) : b \in BOOLEAN}
    \cup {Value("Float32Mat3", d, FALSE) : d \in {<<1, 2, 3, 4, 5, 6, 7, 8, 9>>}}
    \cup {Value("Float32Mat4", d, FALSE) :
            d \in {<<1, 2, 3, 4, 5, 6, 7, 8, 9, 10, 11, 12, 13, 14, 15, 16>>}}

\* The match of set_uniform_value: the GPU calls and the log records for
\* a value and the Option location of its uniform. A matrix upload passes
\* transpose = false and the slice as it is.
Dispatch(location, value, ext) ==
    CASE value.tag = "Float32" ->
            [calls |-> <<Upload("uniform_1_f32", location, <<value.data[1]>>)>>, logs |-> <<>>]
      [] value.tag = "Float32Vec2" ->
            [calls |-> <<Upload("uniform_2_f32", location,
                                <<value.data[1], value.data[2]>>)>>, logs |-> <<>>]
      [] value.tag = "Float32Vec3" ->
            [calls |-> <<Upload("uniform_3_f32", location,
                                <<value.data[1], value.data[2], value.data[3]>>)>>,
             logs |-> <<>>]
      [] value.tag = "Float32Vec4" ->
            [calls |-> <<Upload("uniform_4_f32", location,
                                <<value.data[1], value.data[2], value.data[3],
                                  value.data[4]>>)>>,
             logs |-> <<>>]
      [] value.tag = "Float64" ->
            IF ext THEN
                [calls |-> <<>>, logs |-> <<Log("warn", "f64 not supported yet")>>]
            ELSE
                [calls |-> <<>>, logs |-> <<Log("warn", "version does not support f64")>>]
      [] value.tag = "Int32" ->
            [calls |-> <<Upload("uniform_1_i32", location, <<value.data[1]>>)>>, logs |-> <<>>]
      [] value.tag = "UnsignedInt32" ->
            [calls |-> <<Upload("uniform_1_u32", location, <<value.data[1]>>)>>, logs |-> <<>>]
      [] value.tag = "Bool" ->
            [calls |-> <<Upload("uniform_1_u32", location,
                                <<IF value.b THEN GL_TRUE ELSE GL_FALSE>>)>>,
             logs |-> <<>>]
      [] value.tag = "Float32Mat2" ->
            [calls |-> <<MatrixUpload("uniform_matrix_2_f32_slice", location,
                                      FALSE, value.data)>>,
             logs |-> <<>>]
      [] value.tag = "Float32Mat3" ->
            [calls |-> <<MatrixUpload("uniform_matrix_3_f32_slice", location,
                                      FALSE, value.data)>>,
             logs |-> <<>>]
      [] value.tag = "Float32Mat4" ->
            [calls |-> <<MatrixUpload("uniform_matrix_4_f32_slice", location,
                                      FALSE, value.data)>>,
             logs |-> <<>>]

\* set_uniform_value with no upload when the name is unknown but
\* without the warning.
set_uniform_value_flatten(pr, name, value, ext) ==
    IF ~(name \in DOMAIN pr.uniform_locations) THEN
        [calls |-> Dispatch(None, value, ext).calls,
         logs |-> Dispatch(None, value, ext).logs,
         panic |-> FALSE]
    ELSE
        [calls |-> Dispatch(pr.uniform_locations[name], value, ext).calls,
         logs |-> Dispatch(pr.uniform_locations[name], value, ext).logs,
         panic |-> FALSE]

\* set_uniform_value without the contains_key guard.
set_uniform_value_unchecked(pr, name, value, ext) ==
    IF ~(name \in DOMAIN pr.uniform_locations) THEN
        [calls |-> <<>>, logs |-> <<>>, panic |-> TRUE]
    ELSE
        [calls |-> Dispatch(pr.uniform_locations[name], value, ext).calls,
         logs |-> Dispatch(pr.uniform_locations[name], value, ext).logs,
         panic |-> FALSE]

\* ShaderProgram::set_uniform_value. `ext` is whether the context's
\* supported_extensions() contains ARB_gpu_shader_fp64. Indexing the
\* BTreeMap with a missing key panics. Yields the GPU calls, the log
\* records and whether the call panicked.
set_uniform_value(pr, name, value, ext) ==
    IF ~(name \in DOMAIN pr.uniform_locations) THEN
        [calls |-> <<>>, logs |-> <<Log("warn", "no uniform with name")>>, panic |-> FALSE]
    ELSE
        [calls |-> Dispatch(pr.uniform_locations[name], value, ext).calls,
         logs |-> Dispatch(pr.uniform_locations[name], value, ext).logs,
         panic |-> FALSE]

\* native_gl_value_type_to_keyword, on the names of glow's type constants.
native_gl_value_type_to_keyword(native) ==
    CASE native = "FLOAT" -> "float"
      [] native = "FLOAT_VEC2" -> "vec2"
      [] native = "FLOAT_VEC3" -> "vec3"
      [] native = "FLOAT_VEC4" -> "vec4"
      [] native = "DOUBLE" -> "double"
      [] native = "INT" -> "int"
      [] native = "UNSIGNED_INT" -> "unsigned int"
      [] native = "BOOL" -> "bool"
      [] native = "FLOAT_MAT2" -> "mat2"
      [] native = "FLOAT_MAT3" -> "mat3"
      [] native = "FLOAT_MAT4" -> "mat4"
      [] OTHER -> "?"

\* The loop of print_active_attribs / print_active_uniforms over the
\* driver's answers `items` (Option of [name, ty]); `fn` is the GPU query
\* and `label` the record's prefix.
RECURSIVE PrintActive(_, _, _, _, _, _, _)
PrintActive(p, items, i, fn, label, calls, logs) ==
    IF i >= Len(items) THEN [calls |-> calls, logs |-> logs]
    ELSE PrintActive(p, items, i + 1, fn, label,
            calls \o <<Call(fn, p, i, "")>>,
            logs \o <<IF items[i + 1].some
                      THEN LogItem("debug", label, i,
                                   native_gl_value_type_to_keyword(items[i + 1].v.ty),
                                   items[i + 1].v.name)
                      ELSE LogItem("warn", label, i, "NOT FOUND", "")>>)

\* ShaderProgram::print_active_attribs
print_active_attribs(p, attribs) ==
    PrintActive(p, attribs, 0, "get_active_attribute", "[ATTRIB]",
                <<Call("get_active_attributes", p, 0, "")>>, <<>>)

\* ShaderProgram::print_active_uniforms
print_active_uniforms(p, uniforms) ==
    PrintActive(p, uniforms, 0, "get_active_uniform", "[UNIFORM]",
                <<Call("get_active_uniforms", p, 0, "")>>, <<>>)

\* A drop that would delete the program before detaching.
ProgramDrop_delete_first(pr, p) ==
    <<Call("delete_program", p, 0, "")>>
    \o [i \in 1..Len(pr.shaders) |-> Call("detach_shader", p, pr.shaders[i], "")]

\* Drop for ShaderProgram: detach_shader for every entry of the attached
\* list in order, then delete_program.
ProgramDrop(pr, p) ==
    [i \in 1..Len(pr.shaders) |-> Call("detach_shader", p, pr.shaders[i], "")]
    \o <<Call("delete_program", p, 0, "")>>

\* ------------------------------------------------------ torus generator
\* An f32 the generator computes: the expression `f` of new_torus
\* ("px", "py", "pz": points; "nx", "ny", "nz": normals after the
\* normalisation; "tu", "tv": tex_coords) at u = ring_factor * ring and
\* v = side_factor * side, for the radii passed in. An f32 element of a
\* caller's array is written the same way with the array's name and the
\* element's position.
Flt(f, ring, side) == [f |-> f, ring |-> ring, side |-> side]

\* The value of an f32. "exact": m * 2^e with m = 0 or 2^23 <= m < 2^24;
\* "nonzero": a finite value other than 0.0 that is not followed
\* further; "inf" and "nan". Signs are not followed: every radius, count
\* and angle of the generator is non-negative.
F32Exact(m, e) == [k |-> "exact", m |-> m, e |-> e]
F32Other(k) == [k |-> k, m |-> 0, e |-> 0]
Zero32 == F32Exact(0, 0)
One32 == F32Exact(2^23, -23)
IsZero(x) == x.k = "exact" /\ x.m = 0
IsFinite(x) == x.k \in {"exact", "nonzero"}

\* Round the positive n * 2^e (plus, if `sticky`, a positive amount below
\* 2^e) to the nearest f32, ties to even. n is below 2^31.
RECURSIVE RoundF(_, _, _)
RoundF(n, e, sticky) ==
    IF n < 2^23 THEN RoundF(2 * n, e - 1, sticky)
    ELSE IF n < 2^24 THEN F32Exact(n, e)
    ELSE LET k == CHOOSE j \in 1..8 : n \div 2^j < 2^24 /\ n \div 2^(j - 1) >= 2^24
             q == n \div 2^k
             rem == n % 2^k
             half == 2^(k - 1)
             up == rem > half \/ (rem = half /\ (sticky \/ q % 2 = 1))
         IN IF up /\ q + 1 = 2^24 THEN F32Exact(2^23, e + k + 1)
            ELSE F32Exact(IF up THEN q + 1 ELSE q, e + k)

\* usize as f32, for a count below 2^24.
FromUsize(n) == IF n = 0 THEN Zero32 ELSE RoundF(n, 0, FALSE)

\* nalgebra_glm::two_pi::<f32>(): 0x40C90FDB.
TwoPi32 == F32Exact(13176795, -21)

\* An odd mantissa and its exponent with the same value as m * 2^e.
RECURSIVE OddPart(_, _)
OddPart(m, e) == IF m % 2 = 0 THEN OddPart(m \div 2, e + 1) ELSE [m |-> m, e |-> e]

\* a * b in f32. The product of two values followed exactly is followed
\* exactly; a finite product of nonzero factors is taken not to
\* underflow.
MulF(a, b) ==
    IF a.k = "nan" \/ b.k = "nan" THEN F32Other("nan")
    ELSE IF a.k = "inf" \/ b.k = "inf" THEN
        IF IsZero(a) \/ IsZero(b) THEN F32Other("nan") ELSE F32Other("inf")
    ELSE IF IsZero(a) \/ IsZero(b) THEN Zero32
    ELSE IF a.k = "exact" /\ b.k = "exact" THEN
        RoundF(OddPart(a.m, a.e).m * OddPart(b.m, b.e).m,
               OddPart(a.m, a.e).e + OddPart(b.m, b.e).e, FALSE)
    ELSE F32Other("nonzero")

\* Long division: `bits` more quotient bits of rem / d after acc.
RECURSIVE DivBits(_, _, _, _)
DivBits(acc, rem, d, bits) ==
    IF bits = 0 THEN [q |-> acc, rem |-> rem]
    ELSE IF 2 * rem >= d THEN DivBits(2 * acc + 1, 2 * rem - d, d, bits - 1)
    ELSE DivBits(2 * acc, 2 * rem, d, bits - 1)

\* a / b in f32.
DivF(a, b) ==
    IF a.k = "nan" \/ b.k = "nan" THEN F32Other("nan")
    ELSE IF a.k = "inf" THEN (IF b.k = "inf" THEN F32Other("nan") ELSE F32Other("inf"))
    ELSE IF b.k = "inf" THEN Zero32
    ELSE IF IsZero(b) THEN (IF IsZero(a) THEN F32Other("nan") ELSE F32Other("inf"))
    ELSE IF IsZero(a) THEN Zero32
    ELSE IF a.k = "exact" /\ b.k = "exact" THEN
        LET d == DivBits(a.m \div b.m, a.m % b.m, b.m, 26)
        IN RoundF(d.q, a.e - b.e - 26, d.rem # 0)
    ELSE F32Other("nonzero")

\* f32::sin: 0.0 at 0.0; no other f32 is a multiple of pi, and the sine
\* of a finite f32 other than 0.0 is not 0.0.
SinF(x) ==
    IF ~IsFinite(x) THEN F32Other("nan")
    ELSE IF IsZero(x) THEN Zero32 ELSE F32Other("nonzero")

\* f32::cos: 1.0 at 0.0; no f32 is an odd multiple of pi/2, and the
\* cosine of a finite f32 is not 0.0.
CosF(x) ==
    IF ~IsFinite(x) THEN F32Other("nan")
    ELSE IF IsZero(x) THEN One32 ELSE F32Other("nonzero")

\* r = outer_radius + inner_raduis * cv for the radii of a torus,
\* outer_radius > inner_raduis > 0: a positive value, since |cv| <= 1.
RingRadius(cv) == IF IsFinite(cv) THEN F32Other("nonzero") ELSE F32Other("nan")

\* inner_raduis, as above.
InnerRadius == F32Other("nonzero")

\* x / len for len the Euclidean length of the normal (cv*cu*r, cv*su*r,
\* sv*r): finite and not 0.0, since r is not and cv and sv are not both.
Normalized(x) == IF IsFinite(x) THEN (IF IsZero(x) THEN Zero32 ELSE F32Other("nonzero")) ELSE F32Other("nan")

\* An f32 of the generator with its value.
Val(x, v) == [f |-> x.f, ring |-> x.ring, side |-> x.side, val |-> v]

\* The 0.0 of vec![0.0; n].
ZeroF == Val(Flt("0.0", 0, 0), Zero32)

\* vec![x; n]
Filled(x, n) == [i \in 1..n |-> x]

\* A generator that would size the index array by the ring rows.
Faces_per_row(num_sides, num_rings) == num_sides * (num_rings + 1)

\* let faces = num_sides * num_rings
Faces(num_sides, num_rings) == num_sides * num_rings

\* let num_verts = num_sides * (num_rings + 1)
NumVerts(num_sides, num_rings) == num_sides * (num_rings + 1)

\* A next side that would not wrap around the ring.
NextSide_no_wrap(side, num_sides) == side + 1

\* let next_side = (side + 1) % num_sides
NextSide(side, num_sides) == (side + 1) % num_sides

\* The body of the vertex loop for one (ring, side): st holds points,
\* normals, tex_coords and the cursors idx and tidx (0-based).
TorusVertex(st, ring, side) ==
    LET u == MulF(st.ring_factor, FromUsize(ring))
        cu == CosF(u)
        su == SinF(u)
        v == MulF(st.side_factor, FromUsize(side))
        cv == CosF(v)
        sv == SinF(v)
        r == RingRadius(cv)
    IN [st EXCEPT
          !.points = [@ EXCEPT ![st.idx + 1] = Val(Flt("px", ring, side), MulF(r, cu)),
                               ![st.idx + 2] = Val(Flt("py", ring, side), MulF(r, su)),
                               ![st.idx + 3] = Val(Flt("pz", ring, side), MulF(InnerRadius, sv))],
          !.normals = [@ EXCEPT
                ![st.idx + 1] = Val(Flt("nx", ring, side), Normalized(MulF(MulF(cv, cu), r))),
                ![st.idx + 2] = Val(Flt("ny", ring, side), Normalized(MulF(MulF(cv, su), r))),
                ![st.idx + 3] = Val(Flt("nz", ring, side), Normalized(MulF(sv, r)))],
          !.tex_coords = [@ EXCEPT ![st.tidx + 1] = Val(Flt("tu", ring, side), DivF(u, TwoPi32)),
                                   ![st.tidx + 2] = Val(Flt("tv", ring, side), DivF(v, TwoPi32))],
          !.idx = st.idx + 3,
          !.tidx = st.tidx + 2]

\* for side in 0..num_sides, inside the vertex loop. The writes at
\* idx..idx+2 are bounds-checked; the arrays are sized by num_verts so
\* that the check never fails.
RECURSIVE VertexSides(_, _, _, _)
VertexSides(st, ring, side, num_sides) ==
    IF side >= num_sides \/ st.idx + 3 > Len(st.points) THEN st
    ELSE VertexSides(TorusVertex(st, ring, side), ring, side + 1, num_sides)

\* for ring in 0..(num_rings + 1)
RECURSIVE VertexRings(_, _, _, _)
VertexRings(st, ring, num_sides, num_rings) ==
    IF ring >= num_rings + 1 THEN st
    ELSE VertexRings(VertexSides(st, ring, 0, num_sides), ring + 1, num_sides, num_rings)

\* The body of the index loop for one (ring, side): st holds indicies
\* and the cursor idx (0-based). The `as u32` casts change no value below
\* 2^32, and every value here is below num_verts.
TorusQuad(st, ring, side, num_sides) ==
    [indicies |->
        [st.indicies EXCEPT
            ![st.idx + 1] = ring * num_sides + side,
            ![st.idx + 2] = (ring + 1) * num_sides + side,
            ![st.idx + 3] = (ring + 1) * num_sides + NextSide(side, num_sides),
            ![st.idx + 4] = ring * num_sides + side,
            ![st.idx + 5] = (ring + 1) * num_sides + NextSide(side, num_sides),
            ![st.idx + 6] = ring * num_sides + NextSide(side, num_sides)],
     idx |-> st.idx + 6]

\* for side in 0..num_sides, inside the index loop
RECURSIVE QuadSides(_, _, _, _)
QuadSides(st, ring, side, num_sides) ==
    IF side >= num_sides THEN st
    ELSE QuadSides(TorusQuad(st, ring, side, num_sides), ring, side + 1, num_sides)

\* for ring in 0..num_rings
RECURSIVE QuadRings(_, _, _, _)
QuadRings(st, ring, num_sides, num_rings) ==
    IF ring >= num_rings THEN st
    ELSE QuadRings(QuadSides(st, ring, 0, num_sides), ring + 1, num_sides, num_rings)

\* The arguments of a TriangleMesh constructor: those of TriangleMesh::new
\* and, for new_torus, num_sides and num_rings.
MeshArgs(sides, rings, indices, points, normals, tex, tan) ==
    [sides |-> sides, rings |-> rings, indices |-> indices, points |-> points,
     normals |-> normals, maybe_tex_coords |-> tex, maybe_tangents |-> tan]

\* TriangleMesh::new_torus up to its call of TriangleMesh::new: the
\* arguments it passes.
VertexStart(num_sides, num_rings) ==
    [points |-> Filled(ZeroF, 3 * NumVerts(num_sides, num_rings)),
     normals |-> Filled(ZeroF, 3 * NumVerts(num_sides, num_rings)),
     tex_coords |-> Filled(ZeroF, 2 * NumVerts(num_sides, num_rings)),
     ring_factor |-> DivF(TwoPi32, FromUsize(num_rings)),
     side_factor |-> DivF(TwoPi32, FromUsize(num_sides)),
     idx |-> 0, tidx |-> 0]

new_torus(num_sides, num_rings) ==
    MeshArgs(num_sides, num_rings,
        QuadRings([indicies |-> Filled(0, 6 * Faces(num_sides, num_rings)), idx |-> 0],
                  0, num_sides, num_rings).indicies,
        VertexRings(VertexStart(num_sides, num_rings),
                    0, num_sides, num_rings).points,
        VertexRings(VertexStart(num_sides, num_rings),
                    0, num_sides, num_rings).normals,
        Some(VertexRings(VertexStart(num_sides, num_rings),
                         0, num_sides, num_rings).tex_coords),
        None)

\* --------------------------------------------------------- TriangleMesh
\* The create_buffer calls of one TriangleMesh::new: index, position,
\* normal, texture coordinates, tangents.
BuffersPerMesh == 5
Buffers == 1..BuffersPerMesh
VertexArrays == {1}

\* context.buffer_data_u8_slice(target, cast_slice(data), STATIC_DRAW):
\* the elements, and the length of the byte slice (4 bytes per u32 or f32).
BufferData(target, data) ==
    [Call("buffer_data_u8_slice", NoProg, 4 * Len(data), target) EXCEPT !.val = data]

\* create_buffer, push, bind_buffer, buffer_data_u8_slice for one array.
UploadCallsOf(h, target, data) ==
    <<Call("create_buffer", NoProg, h, ""),
      Call("bind_buffer", NoProg, h, target),
      BufferData(target, data)>>

\* bind_buffer(ARRAY_BUFFER, h); vertex_attrib_pointer_f32(slot, size,
\* FLOAT, false, 0, 0); enable_vertex_attrib_array(slot).
AttribCalls(h, slot, size) ==
    <<Call("bind_buffer", NoProg, h, "ARRAY_BUFFER"),
      [Call("vertex_attrib_pointer_f32", NoProg, slot, "FLOAT") EXCEPT !.val = <<size, 0, 0>>],
      Call("enable_vertex_attrib_array", NoProg, slot, "")>>

\* A constructor that would create the position buffer before the index
\* buffer.
ArraysOf_position_first(a) ==
    <<[target |-> "ARRAY_BUFFER", data |-> a.points],
      [target |-> "ELEMENT_ARRAY_BUFFER", data |-> a.indices],
      [target |-> "ARRAY_BUFFER", data |-> a.normals]>>
    \o (IF a.maybe_tex_coords.some
        THEN <<[target |-> "ARRAY_BUFFER", data |-> a.maybe_tex_coords.v]>> ELSE <<>>)
    \o (IF a.maybe_tangents.some
        THEN <<[target |-> "ARRAY_BUFFER", data |-> a.maybe_tangents.v]>> ELSE <<>>)

\* The arrays TriangleMesh::new uploads, in the order of its create_buffer
\* calls, each with the target it is bound to.
ArraysOf(a) ==
    <<[target |-> "ELEMENT_ARRAY_BUFFER", data |-> a.indices],
      [target |-> "ARRAY_BUFFER", data |-> a.points],
      [target |-> "ARRAY_BUFFER", data |-> a.normals]>>
    \o (IF a.maybe_tex_coords.some
        THEN <<[target |-> "ARRAY_BUFFER", data |-> a.maybe_tex_coords.v]>> ELSE <<>>)
    \o (IF a.maybe_tangents.some
        THEN <<[target |-> "ARRAY_BUFFER", data |-> a.maybe_tangents.v]>> ELSE <<>>)

\* The buffer part of TriangleMesh::new from its i-th create_buffer on.
\* `fail` is the create call that fails (0: none; the vertex array's comes
\* after the buffers'); the `?` returns at once. Handles are given out in
\* order. Yields whether all succeeded, the buffers made and the calls.
RECURSIVE CreateBuffers(_, _, _, _, _)
CreateBuffers(arrays, i, fail, buffers, calls) ==
    IF i > Len(arrays) THEN [ok |-> TRUE, buffers |-> buffers, calls |-> calls]
    ELSE IF fail = i THEN
        [ok |-> FALSE, buffers |-> buffers,
         calls |-> calls \o <<Call("create_buffer", NoProg, 0, "")>>]
    ELSE CreateBuffers(arrays, i + 1, fail, Append(buffers, i),
            calls \o UploadCallsOf(i, arrays[i].target, arrays[i].data))

\* The vertex-array part of TriangleMesh::new for the buffers `b`.
WireCalls(a, b, va) ==
    <<Call("bind_vertex_array", NoProg, va, ""),
      Call("bind_buffer", NoProg, b[1], "ELEMENT_ARRAY_BUFFER")>>
    \o AttribCalls(b[2], 0, 3)
    \o AttribCalls(b[3], 1, 3)
    \o (IF a.maybe_tex_coords.some THEN AttribCalls(b[4], 2, 2) ELSE <<>>)
    \o (IF a.maybe_tangents.some THEN AttribCalls(b[Len(b)], 3, 4) ELSE <<>>)

\* TriangleMesh::new with arguments `a`. Yields the result, the GPU
\* calls, the buffers and the vertex array it made (0: none) and the
\* fields of the TriangleMesh it returns; vertex_count is
\* indices.len() as i32, the length itself below 2^31.
new(a, fail) ==
    IF ~CreateBuffers(ArraysOf(a), 1, fail, <<>>, <<>>).ok THEN
        [res |-> Err("create_buffer"),
         calls |-> CreateBuffers(ArraysOf(a), 1, fail, <<>>, <<>>).calls,
         made |-> CreateBuffers(ArraysOf(a), 1, fail, <<>>, <<>>).buffers,
         vertex_array |-> 0, vertex_count |-> Len(a.indices), buffers |-> <<>>]
    ELSE IF fail = Len(ArraysOf(a)) + 1 THEN
        [res |-> Err("create_vertex_array"),
         calls |-> CreateBuffers(ArraysOf(a), 1, fail, <<>>, <<>>).calls
                   \o <<Call("create_vertex_array", NoProg, 0, "")>>,
         made |-> CreateBuffers(ArraysOf(a), 1, fail, <<>>, <<>>).buffers,
         vertex_array |-> 0, vertex_count |-> Len(a.indices), buffers |-> <<>>]
    ELSE
        [res |-> Ok,
         calls |-> CreateBuffers(ArraysOf(a), 1, fail, <<>>, <<>>).calls
                   \o <<Call("create_vertex_array", NoProg, 1, "")>>
                   \o WireCalls(a, CreateBuffers(ArraysOf(a), 1, fail, <<>>, <<>>).buffers, 1),
         made |-> CreateBuffers(ArraysOf(a), 1, fail, <<>>, <<>>).buffers,
         vertex_array |-> 1, vertex_count |-> Len(a.indices),
         buffers |-> CreateBuffers(ArraysOf(a), 1, fail, <<>>, <<>>).buffers]

\* A delete_buffers that would leave the list as it is.
delete_buffers_keep_list(m) ==
    [buffers |-> m.buffers,
     calls |-> [i \in 1..Len(m.buffers) |-> Call("delete_buffer", NoProg, m.buffers[i], "")]]

\* TriangleMesh::delete_buffers: delete_buffer for every entry of
\* self.buffers, then clear().
delete_buffers(m) ==
    [buffers |-> <<>>,
     calls |-> [i \in 1..Len(m.buffers) |-> Call("delete_buffer", NoProg, m.buffers[i], "")]]

\* A render that would pass the number of triangles as the element count.
render_triangle_count(m) ==
    <<Call("bind_vertex_array", NoProg, m.vertex_array, ""),
      [Call("draw_elements", NoProg, m.vertex_count \div 3, "TRIANGLES")
          EXCEPT !.val = <<0>>, !.name = "TRIANGLES UNSIGNED_INT"]>>

\* Drawable::render for TriangleMesh
render(m) ==
    <<Call("bind_vertex_array", NoProg, m.vertex_array, ""),
      [Call("draw_elements", NoProg, m.vertex_count, "TRIANGLES")
          EXCEPT !.val = <<0>>, !.name = "TRIANGLES UNSIGNED_INT"]>>

\* A GPU buffer or vertex array that has not been created.
NoGpuObject == [st |-> "none", deletes |-> 0]

\* A TriangleMesh that has not been constructed.
NoMesh == [st |-> "none", vertex_count |-> 0, vertex_array |-> 0, buffers |-> <<>>]

\* No TriangleMesh constructor has run.
NoMeshYet ==
    /\ gpuBuffers = [b \in Buffers |-> NoGpuObject]
    /\ gpuVertexArrays = [v \in VertexArrays |-> NoGpuObject]
    /\ mesh = NoMesh

\* semver::Version: major, minor and patch.
Version(major, minor, patch) == [major |-> major, minor |-> minor, patch |-> patch]

\* main() before it has asked the context for its version.
NoApp ==
    [pc |-> "start", version |-> Version(0, 0, 0), program |-> NoGpuObject,
     vertex_array |-> NoGpuObject, exit |-> FALSE, events |-> 0]

\* context.delete_buffer for the delete_buffer calls in `calls`, in order.
RECURSIVE GpuDeleteBuffers(_, _)
GpuDeleteBuffers(g, calls) ==
    IF calls = <<>> THEN g
    ELSE GpuDeleteBuffers(
            [g EXCEPT ![Head(calls).h] = [st |-> "deleted", deletes |-> @.deletes + 1]],
            Tail(calls))

\* ------------------------------------------------------------ the GPU
\* A shader object that create_shader has not yet made.
NoShaderObject == [st |-> "none", compiled |-> FALSE, deletes |-> 0]

\* A program object: its state, and the link status and info log the
\* last link_program left in it.
NoProgramObject == [st |-> "none", linkStatus |-> FALSE, infoLog |-> ""]

\* The GL type the driver reports for a uniform name.
UType(n) == IF n = "mvp" THEN "FLOAT_MAT4" ELSE "FLOAT_VEC4"

\* The answers get_active_uniform can give for the indices 0..count-1.
ActiveSeqs ==
    UNION {[1..k -> {NoItem} \cup {Item(n, UType(n)) : n \in UNames}] : k \in 0..MaxUniforms}

\* The names an active list reports.
ActiveNames(act) == {act[i].v.name : i \in {j \in 1..Len(act) : act[j].some}}

\* The answers get_uniform_location can give: a name that is not active
\* has no location, an active one has a location or none (a member of a
\* uniform block, say).
LocTables(act) ==
    {lc \in [UNames -> {None} \cup {Some(l) : l \in Locs}] :
        \A n \in UNames \ ActiveNames(act) : lc[n] = None}

\* The answers get_active_attribute can give.
AttribSeqs == {<<>>, <<NoItem>>, <<Item("position", "FLOAT_VEC3"), Item("id", "OTHER")>>}

\* The shader objects of the GPU after the delete_shader calls in `calls`.
GpuAfter(g, calls) == GpuDeleteAll(g, DeletedBy(calls))

\* --------------------------------------------------------------- Init
Init ==
    /\ gpuShaders = [h \in Handles |-> NoShaderObject]
    /\ nextShader = 1
    /\ gpuProgs = [p \in Progs |-> NoProgramObject]
    /\ mgrSt = "alive"
    /\ mgrShaders = EmptyMap
    /\ appRef = TRUE
    /\ prog = [p \in Progs |-> NoProgram]
    /\ rebuilds = [p \in Progs |-> 0]
    /\ linkFailed = [p \in Progs |-> FALSE]
    /\ NoMeshYet
    /\ app = NoApp
    /\ lastOp = OpRec("new", NoProg, "", Ok, <<>>, <<>>, <<>>)

\* ------------------------------------------------------------ ownership
\* The programs that exist; each holds an Arc<ShaderManager>.
Alive(pp) == {p \in Progs : pp[p].st = "alive"}

\* A borrow rule that would not count the references programs hold.
Exclusive_without_programs == mgrSt = "alive" /\ appRef

\* load_shader and unload_shader take &mut self: the caller must hold the
\* only reference to the manager.
Exclusive == mgrSt = "alive" /\ appRef /\ Alive(prog) = {}

\* The manager is dropped when its last reference goes: the application
\* holds none and no program exists.
LastRefGone(appRefNew, progNew) ==
    mgrSt = "alive" /\ ~appRefNew /\ Alive(progNew) = {}

\* The calls of Drop for ShaderManager, if releasing a reference runs it.
GlueCalls(appRefNew, progNew) ==
    IF LastRefGone(appRefNew, progNew) THEN ManagerDrop(mgrShaders).calls ELSE <<>>

\* Releasing a reference to the manager: Drop for ShaderManager runs if
\* it was the last one.
ReleaseManager(appRefNew, progNew) ==
    IF LastRefGone(appRefNew, progNew) THEN
        /\ mgrSt' = "dropped"
        /\ mgrShaders' = ManagerDrop(mgrShaders).map
        /\ gpuShaders' = GpuAfter(gpuShaders, ManagerDrop(mgrShaders).calls)
    ELSE
        UNCHANGED <<mgrSt, mgrShaders, gpuShaders>>

\* ------------------------------------------------ ShaderManager actions
ShaderTypes == {"Vertex", "Fragment"}

LoadShader(key, ty, outcome, log) ==
    /\ Exclusive
    /\ outcome \in {"compile", "ok"} => nextShader <= MaxShaders
    /\ outcome # "compile" => log = "log_a"
    /\ LET r == load_shader(mgrShaders, key, ty, nextShader, outcome # "io",
                            outcome \in {"compile", "ok"}, outcome = "ok", log)
       IN /\ mgrShaders' = r.map
          /\ gpuShaders' = IF r.made
                           THEN [gpuShaders EXCEPT ![nextShader] =
                                    [st |-> "live", compiled |-> r.compiled, deletes |-> 0]]
                           ELSE gpuShaders
          /\ nextShader' = IF r.made THEN nextShader + 1 ELSE nextShader
          /\ lastOp' = OpRec("load_shader", NoProg, key, r.res, r.calls, <<>>, <<>>)
    /\ UNCHANGED <<meshVars, app>>
    /\ UNCHANGED <<gpuProgs, mgrSt, appRef, prog, rebuilds, linkFailed>>

UnloadShader(key) ==
    /\ Exclusive
    /\ LET r == unload_shader(mgrShaders, key)
       IN /\ mgrShaders' = r.map
          /\ gpuShaders' = GpuAfter(gpuShaders, r.calls)
          /\ lastOp' = OpRec("unload_shader", NoProg, key, Ok, r.calls, <<>>, <<>>)
    /\ UNCHANGED <<meshVars, app>>
    /\ UNCHANGED <<nextShader, gpuProgs, mgrSt, appRef, prog,
                   rebuilds, linkFailed>>

\* has_shader and get_shader take &self: any holder of a reference may call.
GetShader(key) ==
    /\ mgrSt = "alive"
    /\ appRef
    /\ lastOp' = [OpRec("get_shader", NoProg, key, Ok, <<>>, <<>>, <<>>)
                  EXCEPT !.ret = get_shader(mgrShaders, key)]
    /\ UNCHANGED <<meshVars, app>>
    /\ UNCHANGED <<gpuVars, mgrVars, prog, rebuilds, linkFailed>>

\* The application gives up the manager (its value or its Arc).
DropManagerRef ==
    /\ mgrSt = "alive"
    /\ appRef
    /\ appRef' = FALSE
    /\ ReleaseManager(FALSE, prog)
    /\ lastOp' = OpRec("drop_manager_ref", NoProg, "", Ok, <<>>, <<>>, GlueCalls(FALSE, prog))
    /\ UNCHANGED <<meshVars, app>>
    /\ UNCHANGED <<nextShader, gpuProgs, prog, rebuilds, linkFailed>>

\* ------------------------------------------------ ShaderProgram actions
\* ShaderProgram instances are made in the order of ProgOrder.
ProgOrder == <<"p1", "p2">>
NextProg(p) ==
    \E i \in 1..Len(ProgOrder) :
        /\ ProgOrder[i] = p
        /\ prog[p].st = "none"
        /\ \A j \in 1..(i - 1) : prog[ProgOrder[j]].st # "none"

\* ShaderProgram::new(context, shader_manager). `created` is whether
\* create_program succeeds; `moved` is whether the caller passes its own
\* Arc (true) or a clone of it (false). On failure the Arc passed in is
\* dropped.
CreateProgram(p, created, moved) ==
    /\ mgrSt = "alive"
    /\ appRef
    /\ NextProg(p)
    /\ appRef' = ~moved
    /\ prog' = [prog EXCEPT ![p] = IF created THEN NewProgram
                                   ELSE [NoProgram EXCEPT !.st = "failed"]]
    /\ gpuProgs' = IF created THEN [gpuProgs EXCEPT ![p].st = "live"] ELSE gpuProgs
    /\ ReleaseManager(~moved, prog')
    /\ lastOp' = OpRec("new_program", p, "",
                       IF created THEN Ok ELSE Err("create_program"),
                       <<Call("create_program", IF created THEN p ELSE NoProg, 0, "")>>,
                       <<>>, GlueCalls(~moved, prog'))
    /\ UNCHANGED <<meshVars, app>>
    /\ UNCHANGED <<nextShader, rebuilds, linkFailed>>

AttachShader(p, key) ==
    /\ prog[p].st = "alive"
    /\ Len(prog[p].shaders) < MaxAttach
    /\ LET r == attach_shader(prog[p], p, mgrShaders, key)
       IN /\ prog' = [prog EXCEPT ![p] = r.pr]
          /\ lastOp' = OpRec("attach_shader", p, key, Ok, r.calls, <<>>, <<>>)
    /\ UNCHANGED <<meshVars, app>>
    /\ UNCHANGED <<gpuVars, mgrVars, rebuilds, linkFailed>>

\* ShaderProgram::link. The driver's answers to link_program are the
\* status, the info log of a failed link, and the active uniforms and
\* their locations of a successful one; they are asked only if link()
\* issues link_program.
Link(p, status, log, act, lc) ==
    /\ prog[p].st = "alive"
    /\ LET r == link(prog[p], p, status, log, act, lc)
           issued == CallsOf(r.calls, {"link_program"}) # <<>>
       IN /\ status => log = ""
          /\ ~status => log \in InfoLogs /\ act = <<>>
          /\ ~issued => status /\ act = <<>>
          /\ prog' = [prog EXCEPT ![p] = r.pr]
          /\ gpuProgs' = IF issued
                         THEN [gpuProgs EXCEPT ![p].linkStatus = status, ![p].infoLog = log]
                         ELSE gpuProgs
          /\ rebuilds' = [rebuilds EXCEPT ![p] = IF r.rebuilt THEN @ + 1 ELSE @]
          /\ linkFailed' = [linkFailed EXCEPT ![p] = @ \/ ~r.res.ok]
          /\ lastOp' = [OpRec("link", p, "", r.res, r.calls, <<>>, <<>>)
                        EXCEPT !.args = [act |-> act, lc |-> lc]]
    /\ UNCHANGED <<meshVars, app>>
    /\ UNCHANGED <<gpuShaders, nextShader, mgrVars>>

UseProgram(p) ==
    /\ prog[p].st = "alive"
    /\ LET r == use_program(prog[p], p)
       IN lastOp' = OpRec("use_program", p, "", r.res, r.calls, <<>>, <<>>)
    /\ UNCHANGED <<meshVars, app>>
    /\ UNCHANGED <<gpuVars, mgrVars, prog, rebuilds, linkFailed>>

\* `ext` is whether supported_extensions() lists ARB_gpu_shader_fp64; it
\* is asked only for a Float64 value.
SetUniformValue(p, name, value, ext) ==
    /\ prog[p].st = "alive"
    /\ value.tag # "Float64" => ~ext
    /\ LET r == set_uniform_value(prog[p], name, value, ext)
       IN lastOp' = [OpRec("set_uniform_value", p, name, Ok, r.calls, r.logs, <<>>)
                     EXCEPT !.value = value, !.ext = ext, !.panic = r.panic]
    /\ UNCHANGED <<meshVars, app>>
    /\ UNCHANGED <<gpuVars, mgrVars, prog, rebuilds, linkFailed>>

PrintActiveAttribs(p, attribs) ==
    /\ prog[p].st = "alive"
    /\ LET r == print_active_attribs(p, attribs)
       IN lastOp' = OpRec("print_active_attribs", p, "", Ok, r.calls, r.logs, <<>>)
    /\ UNCHANGED <<meshVars, app>>
    /\ UNCHANGED <<gpuVars, mgrVars, prog, rebuilds, linkFailed>>

PrintActiveUniforms(p, uniforms) ==
    /\ prog[p].st = "alive"
    /\ LET r == print_active_uniforms(p, uniforms)
       IN lastOp' = OpRec("print_active_uniforms", p, "", Ok, r.calls, r.logs, <<>>)
    /\ UNCHANGED <<meshVars, app>>
    /\ UNCHANGED <<gpuVars, mgrVars, prog, rebuilds, linkFailed>>

\* ShaderProgram::bind_attrib_location / bind_frag_data_location
BindLocation(p, fn, index, name) ==
    /\ prog[p].st = "alive"
    /\ lastOp' = OpRec(fn, p, name, Ok, <<Call(fn, p, index, name)>>, <<>>, <<>>)
    /\ UNCHANGED <<meshVars, app>>
    /\ UNCHANGED <<gpuVars, mgrVars, prog, rebuilds, linkFailed>>

\* ShaderProgram::is_linked (and get_handle: the program's own handle).
IsLinked(p) ==
    /\ prog[p].st = "alive"
    /\ lastOp' = [OpRec("is_linked", p, "", Ok, <<>>, <<>>, <<>>)
                  EXCEPT !.ret = Some(IF prog[p].linked THEN 1 ELSE 0)]
    /\ UNCHANGED <<meshVars, app>>
    /\ UNCHANGED <<gpuVars, mgrVars, prog, rebuilds, linkFailed>>

\* Dropping a ShaderProgram: Drop for ShaderProgram, then its fields,
\* among them its Arc<ShaderManager>.
DropProgram(p) ==
    /\ prog[p].st = "alive"
    /\ prog' = [prog EXCEPT ![p] = [NoProgram EXCEPT !.st = "dropped"]]
    /\ gpuProgs' = [gpuProgs EXCEPT ![p] = [NoProgramObject EXCEPT !.st = "deleted"]]
    /\ ReleaseManager(appRef, prog')
    /\ lastOp' = OpRec("drop_program", p, "", Ok, ProgramDrop(prog[p], p), <<>>,
                       GlueCalls(appRef, prog'))
    /\ UNCHANGED <<meshVars, app>>
    /\ UNCHANGED <<nextShader, appRef, rebuilds, linkFailed>>

\* The answers get_active_uniform gives print_active_uniforms.
UniformSeqs == {<<>>, <<Item("mvp", UType("mvp")), NoItem>>, <<Item("color", UType("color"))>>}

\* ------------------------------------------------- TriangleMesh actions
\* The arrays a caller passes to TriangleMesh::new: one triangle, with
\* or without texture coordinates and tangents.
InF(name, n) == [i \in 1..n |-> Flt(name, i, 0)]
MeshInputs ==
    {MeshArgs(0, 0, <<0, 1, 2>>, InF("points", 9), InF("normals", 9), tex, tan) :
        tex \in {None, Some(InF("tex_coords", 6))},
        tan \in {None, Some(InF("tangents", 12))}}

\* The effect of a TriangleMesh constructor called as `op`, which calls
\* TriangleMesh::new with arguments `a`.
Construct(op, a, fail) ==
    /\ fail <= Len(ArraysOf(a)) + 1
    /\ LET r == new(a, fail)
       IN /\ mesh' = [st |-> IF r.res.ok THEN "alive" ELSE "failed",
                      vertex_count |-> IF r.res.ok THEN r.vertex_count ELSE 0,
                      vertex_array |-> r.vertex_array,
                      buffers |-> r.buffers]
          /\ gpuBuffers' = [b \in Buffers |->
                               IF \E i \in 1..Len(r.made) : r.made[i] = b
                               THEN [st |-> "live", deletes |-> 0]
                               ELSE gpuBuffers[b]]
          /\ gpuVertexArrays' = [v \in VertexArrays |->
                                    IF r.vertex_array = v
                                    THEN [st |-> "live", deletes |-> 0]
                                    ELSE gpuVertexArrays[v]]
          /\ lastOp' = [OpRec(op, NoProg, "", r.res, r.calls, <<>>, <<>>) EXCEPT !.args = a]
    /\ UNCHANGED <<shaderVars, app>>

\* TriangleMesh::new called by the application.
NewMesh(a, fail) ==
    /\ mesh.st = "none"
    /\ Construct("new_mesh", a, fail)

\* TriangleMesh::new_torus: the generator, then TriangleMesh::new.
NewTorus(num_sides, num_rings, fail) ==
    /\ mesh.st = "none"
    /\ Construct("new_torus", new_torus(num_sides, num_rings), fail)

Render ==
    /\ mesh.st = "alive"
    /\ lastOp' = OpRec("render", NoProg, "", Ok, render(mesh), <<>>, <<>>)
    /\ UNCHANGED <<meshVars, app>>
    /\ UNCHANGED shaderVars

\* delete_buffers is a private method of the module: Drop calls it, and
\* so may any code of geometry.rs that holds the mesh.
DeleteBuffers ==
    /\ mesh.st = "alive"
    /\ LET r == delete_buffers(mesh)
       IN /\ mesh' = [mesh EXCEPT !.buffers = r.buffers]
          /\ gpuBuffers' = GpuDeleteBuffers(gpuBuffers, r.calls)
          /\ lastOp' = OpRec("delete_buffers", NoProg, "", Ok, r.calls, <<>>, <<>>)
    /\ UNCHANGED gpuVertexArrays
    /\ UNCHANGED <<shaderVars, app>>

\* Drop for TriangleMesh: delete_buffers, then the fields (a handle has
\* no destructor).
DropMesh ==
    /\ mesh.st = "alive"
    /\ LET r == delete_buffers(mesh)
       IN /\ mesh' = [mesh EXCEPT !.st = "dropped", !.buffers = r.buffers]
          /\ gpuBuffers' = GpuDeleteBuffers(gpuBuffers, r.calls)
          /\ lastOp' = OpRec("drop_mesh", NoProg, "", Ok, r.calls, <<>>, <<>>)
    /\ UNCHANGED gpuVertexArrays
    /\ UNCHANGED <<shaderVars, app>>

\* ------------------------------------------------- the version gate
\* static MIN_OPENGL_VERSION: Version = Version::new(4, 3, 0)
MIN_OPENGL_VERSION == Version(4, 3, 0)

\* An order that would compare the major numbers only.
VersionLess_major_only(a, b) == a.major < b.major

\* Ord for semver::Version: major, then minor, then patch.
VersionLess(a, b) ==
    \/ a.major < b.major
    \/ a.major = b.major /\ a.minor < b.minor
    \/ a.major = b.major /\ a.minor = b.minor /\ a.patch < b.patch

\* OpenGlMetadata::from: the version is made of what the context answers
\* to MAJOR_VERSION and MINOR_VERSION, with patch 0. The casts `as u64`
\* change no answer that is not negative.
DetectedVersion(major_version, minor_version) == Version(major_version, minor_version, 0)

\* assert_version: whether it panics.
assert_version(version) == VersionLess(version, MIN_OPENGL_VERSION)

\* ------------------------------------------------- the application
\* The program object and the vertex array main() makes.
MainProgram == "main"
MainVertexArray == 1

\* The steps of main() between the version gate and the event loop that
\* panic on failure, in order.
SetupSteps ==
    <<"position_buffer", "color_buffer", "vertex_array", "program", "read_sources",
      "create_shader", "compile", "link", "block_index">>

\* The 1-based place of a step in SetupSteps.
StepIndex(step) == CHOOSE i \in 1..Len(SetupSteps) : SetupSteps[i] = step

\* The object a setup step makes exists if no step panicked (fail = 0)
\* or a later one did.
MadeBy(step, fail) ==
    IF fail = 0 \/ fail > StepIndex(step) THEN [st |-> "live", deletes |-> 0] ELSE NoGpuObject

\* The closure's answer to Event::MainEventsCleared, up to swap_buffers.
main_events_cleared ==
    <<Call("clear", NoProg, 0, "COLOR_BUFFER_BIT"),
      Call("bind_vertex_array", NoProg, MainVertexArray, ""),
      [Call("draw_arrays", NoProg, 0, "TRIANGLES") EXCEPT !.val = <<3>>],
      [Call("draw_arrays", NoProg, 1, "TRIANGLES") EXCEPT !.val = <<3>>]>>

\* The closure's answer to WindowEvent::CloseRequested.
close_requested ==
    <<Call("delete_program", MainProgram, 0, ""),
      Call("delete_vertex_array", NoProg, MainVertexArray, "")>>

\* gl.delete_program / gl.delete_vertex_array on an object of main().
GpuDelete(obj) == [st |-> "deleted", deletes |-> obj.deletes + 1]

\* The record of an application step in lastOp.
AppRec(op, calls, panicked) ==
    [OpRec(op, NoProg, "", Ok, calls, <<>>, <<>>) EXCEPT !.panic = panicked]

\* What the application leaves alone.
libVars == <<shaderVars, meshVars>>

\* OpenGlMetadata::from(gl.clone())
DetectVersion(major_version, minor_version) ==
    /\ app.pc = "start"
    /\ app' = [app EXCEPT !.pc = "detected",
                          !.version = DetectedVersion(major_version, minor_version)]
    /\ lastOp' = AppRec("detect_version", <<>>, FALSE)
    /\ UNCHANGED libVars

\* gl_metadata.assert_version()
AssertVersion ==
    /\ app.pc = "detected"
    /\ app' = [app EXCEPT !.pc = IF assert_version(app.version) THEN "panicked" ELSE "checked"]
    /\ lastOp' = AppRec("assert_version", <<>>, assert_version(app.version))
    /\ UNCHANGED libVars

\* main() from the version gate to event_loop.run; `fail` is the step
\* of SetupSteps that panics, 0 if none does.
Setup(fail) ==
    /\ app.pc = "checked"
    /\ app' = [app EXCEPT !.pc = IF fail = 0 THEN "running" ELSE "panicked",
                          !.vertex_array = MadeBy("vertex_array", fail),
                          !.program = MadeBy("program", fail)]
    /\ lastOp' = AppRec("setup",
                        IF fail = 0 THEN <<Call("use_program", MainProgram, 0, "")>> ELSE <<>>,
                        fail # 0)
    /\ UNCHANGED libVars

\* The event loop calls the closure with one more event.
Delivers ==
    /\ app.pc = "running"
    /\ app.events < MaxEvents

\* Event::MainEventsCleared; `swapped` is whether swap_buffers succeeds.
MainEventsCleared(swapped) ==
    /\ Delivers
    /\ app' = [app EXCEPT !.events = @ + 1,
                          !.pc = IF swapped THEN "running" ELSE "panicked"]
    /\ lastOp' = AppRec("MainEventsCleared", main_events_cleared, ~swapped)
    /\ UNCHANGED libVars

\* WindowEvent::Resized
Resized ==
    /\ Delivers
    /\ app' = [app EXCEPT !.events = @ + 1]
    /\ lastOp' = AppRec("Resized", <<>>, FALSE)
    /\ UNCHANGED libVars

\* WindowEvent::CloseRequested
CloseRequested ==
    /\ Delivers
    /\ app' = [app EXCEPT !.events = @ + 1,
                          !.program = GpuDelete(@),
                          !.vertex_array = GpuDelete(@),
                          !.exit = TRUE]
    /\ lastOp' = AppRec("CloseRequested", close_requested, FALSE)
    /\ UNCHANGED libVars

\* Any other event: the closure does nothing.
OtherEvent ==
    /\ Delivers
    /\ app' = [app EXCEPT !.events = @ + 1]
    /\ lastOp' = AppRec("other", <<>>, FALSE)
    /\ UNCHANGED libVars

\* Event::LoopDestroyed, which the event loop sends last, once the
\* closure has set ControlFlow::Exit.
LoopDestroyed ==
    /\ app.pc = "running"
    /\ app.exit
    /\ app' = [app EXCEPT !.pc = "destroyed"]
    /\ lastOp' = AppRec("LoopDestroyed", <<>>, FALSE)
    /\ UNCHANGED libVars

\* ------------------------------------------------------- specifications
\* The operations of a ShaderManager.
ManagerNext ==
    \/ \E key \in Names, ty \in ShaderTypes, outcome \in {"io", "create", "compile", "ok"},
          log \in InfoLogs : LoadShader(key, ty, outcome, log)
    \/ \E key \in Names : UnloadShader(key)
    \/ \E key \in Names : GetShader(key)
    \/ DropManagerRef

\* The operations that begin, fill and end a ShaderProgram; `progs` are
\* the programs that may be made and `moves` is whether the caller may
\* pass its own Arc to ShaderProgram::new.
LifeNextOf(progs, moves) ==
    \/ \E p \in progs, created \in BOOLEAN, moved \in moves : CreateProgram(p, created, moved)
    \/ \E p \in Progs, key \in Names : AttachShader(p, key)
    \/ \E p \in Progs : DropProgram(p)

LinkNext ==
    \E p \in Alive(prog), status \in BOOLEAN :
        \E log \in (IF status THEN {""} ELSE InfoLogs),
           act \in (IF status /\ ~prog[p].linked THEN ActiveSeqs ELSE {<<>>}) :
            \E lc \in LocTables(act) : Link(p, status, log, act, lc)

SetUniformNext(names, values) ==
    \E p \in Alive(prog), name \in names, value \in values :
        \E ext \in (IF value.tag = "Float64" THEN BOOLEAN ELSE {FALSE}) :
            SetUniformValue(p, name, value, ext)

\* The operations of a ShaderProgram that neither begin nor end it.
ReadNext ==
    \/ \E p \in Alive(prog) : UseProgram(p)
    \/ \E p \in Alive(prog), attribs \in AttribSeqs : PrintActiveAttribs(p, attribs)
    \/ \E p \in Alive(prog), uniforms \in UniformSeqs : PrintActiveUniforms(p, uniforms)
    \/ \E p \in Alive(prog), fn \in {"bind_attrib_location", "bind_frag_data_location"},
          index \in {1} : BindLocation(p, fn, index, "out")
    \/ \E p \in Alive(prog) : IsLinked(p)

\* A shader manager and the programs made from it: every load, unload and
\* lookup, and the programs' creation, attachments and destruction.
Next == ManagerNext \/ LifeNextOf(OneProg, BOOLEAN)

Spec == Init /\ [][Next]_vars

\* The states a shader manager is in when a program is made from it; the
\* manager cannot change while the program holds its reference.
ManagerStates ==
    {[map |-> EmptyMap, live |-> {}, deleted |-> {}],
     [map |-> ("frag" :> 1) @@ ("vert" :> 2), live |-> {1, 2}, deleted |-> {}],
     [map |-> ("vert" :> 2), live |-> {2}, deleted |-> {1}]}

\* A ShaderProgram about to be made from a manager in a state of `states`.
InitOver(states) ==
    \E ms \in states :
        /\ gpuShaders = [h \in Handles |->
                            IF h \in ms.live
                            THEN [st |-> "live", compiled |-> TRUE, deletes |-> 0]
                            ELSE IF h \in ms.deleted
                            THEN [st |-> "deleted", compiled |-> TRUE, deletes |-> 1]
                            ELSE NoShaderObject]
        /\ nextShader = Cardinality(ms.live \cup ms.deleted) + 1
        /\ gpuProgs = [p \in Progs |-> NoProgramObject]
        /\ mgrSt = "alive"
        /\ mgrShaders = ms.map
        /\ appRef = TRUE
        /\ prog = [p \in Progs |-> NoProgram]
        /\ rebuilds = [p \in Progs |-> 0]
        /\ linkFailed = [p \in Progs |-> FALSE]
        /\ NoMeshYet
        /\ app = NoApp
        /\ lastOp = OpRec("new", NoProg, "", Ok, <<>>, <<>>, <<>>)

\* One ShaderProgram from its creation to its destruction, over every
\* state of ManagerStates and every operation of the program; the values
\* passed to set_uniform_value are a sample of the GlslValue variants.
ProgramInit == InitOver(ManagerStates)

SampleValues == {v \in GlslValues : v.tag \in {"Float32", "Float64"}}

ProgramNext ==
    \/ LifeNextOf(OneProg, BOOLEAN)
    \/ LinkNext
    \/ SetUniformNext({"color", "nonexistent"}, SampleValues)
    \/ ReadNext

SpecProgram == ProgramInit /\ [][ProgramNext]_vars

\* One ShaderProgram and the uniforms set on it: every GlslValue variant
\* under every name, before and after every outcome of link().
UniformInit == InitOver({ms \in ManagerStates : DOMAIN ms.map = {"vert"}})

UniformNext ==
    \/ LifeNextOf(OneProg, {FALSE})
    \/ LinkNext
    \/ SetUniformNext(QueryNames, GlslValues)

SpecUniform == UniformInit /\ [][UniformNext]_vars

\* A shader manager shared by two programs: every load, unload and
\* lookup the borrow rules allow, and the programs' creation,
\* attachments and destruction in every order.
SharedNext == ManagerNext \/ LifeNextOf(Progs, BOOLEAN)

SpecShared == Init /\ [][SharedNext]_vars

\* One TriangleMesh from its construction (by TriangleMesh::new or by
\* new_torus, with every create call that can fail) to its destruction.
MeshNext ==
    \/ \E a \in MeshInputs, fail \in 0..(BuffersPerMesh + 1) : NewMesh(a, fail)
    \/ \E num_sides \in 0..MaxSides, num_rings \in 0..MaxRings, fail \in 0..BuffersPerMesh :
          NewTorus(num_sides, num_rings, fail)
    \/ Render
    \/ DeleteBuffers
    \/ DropMesh

SpecMesh == Init /\ [][MeshNext]_vars

\* main(): the version gate, the setup with every panic, and the event
\* loop delivering events in every order until LoopDestroyed.
AppNext ==
    \/ \E major_version \in 0..MaxMajor, minor_version \in 0..MaxMinor :
          DetectVersion(major_version, minor_version)
    \/ AssertVersion
    \/ \E fail \in 0..Len(SetupSteps) : Setup(fail)
    \/ \E swapped \in BOOLEAN : MainEventsCleared(swapped)
    \/ Resized
    \/ CloseRequested
    \/ OtherEvent
    \/ LoopDestroyed

SpecApp == Init /\ [][AppNext]_vars

\* --------------------------------------------------------- properties
\* The GPU calls of `calls` that upload a uniform.
Uploads(calls) == CallsOf(calls, UploadCalls)

\* The step is a call of operation `op` on program p, which exists
\* before and after it.
StepOf(op, p) ==
    /\ prog[p].st = "alive"
    /\ prog'[p].st = "alive"
    /\ lastOp'.op = op
    /\ lastOp'.prog = p

\* C1: a ShaderProgram starts Unlinked; once linked it stays linked under
\* every later operation; a link() call on a linked program returns
\* success, issues no GPU call at all (so no link and no uniform
\* enumeration) and leaves the linked flag, the attached list and the
\* uniform table as they were; the uniform table is rebuilt at most once.
C1_LinkOneWayIdempotent ==
    [][\A p \in Progs :
        /\ (prog[p].st = "none" /\ prog'[p].st = "alive") => ~prog'[p].linked
        /\ (prog[p].st = "alive" /\ prog[p].linked /\ prog'[p].st = "alive")
              => prog'[p].linked
        /\ (StepOf("link", p) /\ prog[p].linked)
              => /\ lastOp'.res = Ok
                 /\ lastOp'.calls = <<>>
                 /\ prog'[p] = prog[p]
        /\ rebuilds'[p] <= 1]_vars

\* C1 witness: link() was called on a linked program whose table has an entry.
C1_Witness ==
    \E p \in Progs :
        /\ prog[p].st = "alive"
        /\ prog[p].linked
        /\ DOMAIN prog[p].uniform_locations # {}
        /\ lastOp.op = "link"
        /\ lastOp.calls = <<>>
        /\ rebuilds[p] = 1

\* C2: the uniform table of an Unlinked program is empty, and the table
\* of a program changes only in a link() step that takes the program from
\* Unlinked to Linked.
C2_TableOnlyByLink ==
    [][\A p \in Progs :
        /\ (prog'[p].st = "alive" /\ ~prog'[p].linked)
              => prog'[p].uniform_locations = EmptyMap
        /\ (prog[p].st = "alive" /\ prog'[p].st = "alive"
            /\ prog'[p].uniform_locations # prog[p].uniform_locations)
              => /\ lastOp'.op = "link"
                 /\ lastOp'.res = Ok
                 /\ ~prog[p].linked
                 /\ prog'[p].linked]_vars

\* C2 witness: an Unlinked program after an attach, a failed link and a
\* set_uniform_value, its table still empty.
C2_Witness ==
    \E p \in Progs :
        /\ prog[p].st = "alive"
        /\ ~prog[p].linked
        /\ prog[p].shaders # <<>>
        /\ linkFailed[p]
        /\ lastOp.op = "set_uniform_value"
        /\ prog[p].uniform_locations = EmptyMap

\* C3: a link() on an Unlinked program issues link_program first; when
\* the GPU then reports failure, link() returns an error that carries the
\* program info log and leaves the program Unlinked with its table and
\* attached list as they were. This holds after earlier failures too.
C3_LinkFailure ==
    [][\A p \in Progs :
        (StepOf("link", p) /\ ~prog[p].linked)
           => /\ lastOp'.calls # <<>>
              /\ lastOp'.calls[1] = Call("link_program", p, 0, "")
              /\ ~gpuProgs'[p].linkStatus
                    => /\ lastOp'.res = Err(gpuProgs'[p].infoLog)
                       /\ ~lastOp'.res.ok
                       /\ gpuProgs'[p].infoLog \in InfoLogs
                       /\ prog'[p] = prog[p]
              /\ gpuProgs'[p].linkStatus => lastOp'.res = Ok /\ prog'[p].linked]_vars

\* C3 witness: a link() succeeded on a program with an attached stage
\* after an earlier link() of it had failed.
C3_Witness ==
    \E p \in Progs :
        /\ prog[p].st = "alive"
        /\ linkFailed[p]
        /\ prog[p].shaders # <<>>
        /\ prog[p].linked
        /\ lastOp.op = "link"
        /\ lastOp.res = Ok
        /\ lastOp.calls # <<>>

\* C4: use() on an Unlinked program returns the not-linked error without
\* panicking and issues no GPU call; use() on a Linked program returns
\* success and issues exactly one GPU call, use_program of this program;
\* in both cases the program and the GPU's objects are as before.
C4_UseProgram ==
    [][\A p \in Progs :
        StepOf("use_program", p)
           => /\ prog' = prog
              /\ gpuProgs' = gpuProgs
              /\ ~lastOp'.panic
              /\ ~prog[p].linked
                    => /\ lastOp'.res = Err("Shader program not been linked")
                       /\ lastOp'.calls = <<>>
              /\ prog[p].linked
                    => /\ lastOp'.res = Ok
                       /\ lastOp'.calls = <<Call("use_program", p, 0, "")>>]_vars

\* C4 witness: use() was called on an Unlinked program.
C4_Witness ==
    \E p \in Progs :
        /\ prog[p].st = "alive"
        /\ ~prog[p].linked
        /\ lastOp.op = "use_program"
        /\ ~lastOp.res.ok

\* C7: destroying a ShaderProgram issues one detach_shader for every
\* entry of its attached list, in list order, then exactly one
\* delete_program, and no delete_shader.
C7_ProgramDrop ==
    [][\A p \in Progs :
        (prog[p].st = "alive" /\ prog'[p].st = "dropped")
           => /\ lastOp'.op = "drop_program"
              /\ Len(lastOp'.calls) = Len(prog[p].shaders) + 1
              /\ \A i \in 1..Len(prog[p].shaders) :
                    lastOp'.calls[i] = Call("detach_shader", p, prog[p].shaders[i], "")
              /\ lastOp'.calls[Len(prog[p].shaders) + 1] = Call("delete_program", p, 0, "")
              /\ CallsOf(lastOp'.calls, {"delete_shader"}) = <<>>]_vars

\* C7 witness: a program with the same stage attached twice was
\* destroyed, and it held the last reference to its manager, whose own
\* destructor then deleted the registered stages.
C7_Witness ==
    /\ lastOp.op = "drop_program"
    /\ Len(lastOp.calls) = 3
    /\ lastOp.calls[1].h = lastOp.calls[2].h
    /\ CallsOf(lastOp.glue, {"delete_shader"}) # <<>>

\* C5: set_uniform_value with a name that is not a key of the uniform
\* table returns normally for every GlslValue variant, logs exactly one
\* warning, issues no GPU call, and leaves the program as it was.
C5_UnknownUniform ==
    [][\A p \in Progs :
        (StepOf("set_uniform_value", p)
         /\ lastOp'.key \notin DOMAIN prog[p].uniform_locations)
           => /\ ~lastOp'.panic
              /\ Len(lastOp'.logs) = 1
              /\ lastOp'.logs[1].level = "warn"
              /\ lastOp'.calls = <<>>
              /\ prog' = prog
              /\ gpuProgs' = gpuProgs]_vars

\* C5 witness: on a Linked program with a non-empty table, an unknown
\* name was set to a Float32Mat4 value.
C5_Witness ==
    \E p \in Progs :
        /\ prog[p].st = "alive"
        /\ prog[p].linked
        /\ DOMAIN prog[p].uniform_locations # {}
        /\ lastOp.op = "set_uniform_value"
        /\ lastOp.key \notin DOMAIN prog[p].uniform_locations
        /\ lastOp.value.tag = "Float32Mat4"

\* C6: set_uniform_value on a program that no link() has linked yet does
\* not panic and issues no GPU upload call, for every name and value.
C6_SetBeforeLink ==
    [][\A p \in Progs :
        (StepOf("set_uniform_value", p) /\ rebuilds[p] = 0)
           => /\ ~lastOp'.panic
              /\ Uploads(lastOp'.calls) = <<>>]_vars

\* C6 witness: a uniform name the driver can report was set on a program
\* with an attached stage whose only link() so far failed.
C6_Witness ==
    \E p \in Progs :
        /\ prog[p].st = "alive"
        /\ rebuilds[p] = 0
        /\ linkFailed[p]
        /\ prog[p].shaders # <<>>
        /\ lastOp.op = "set_uniform_value"
        /\ lastOp.key \in UNames
        /\ lastOp.value.tag = "Float32"

\* The stages registered in a manager's map.
Registered(m) == {m[k] : k \in DOMAIN m}

\* The shader objects the GPU holds: created and not deleted.
LiveShaders == {h \in Handles : gpuShaders[h].st = "live"}

\* C8: destroying the ShaderManager issues exactly one delete_shader for
\* each stage registered at that moment and for nothing else, and over
\* the manager's whole life (unloads and destruction) no stage handle is
\* deleted twice.
C8_ManagerDrop ==
    [][/\ (mgrSt = "alive" /\ mgrSt' = "dropped")
             => /\ Len(DeletedBy(lastOp'.glue)) = Cardinality(Registered(mgrShaders))
                /\ {DeletedBy(lastOp'.glue)[i] : i \in 1..Len(DeletedBy(lastOp'.glue))}
                      = Registered(mgrShaders)
                /\ CallsOf(lastOp'.calls, {"delete_shader"}) = <<>>
       /\ \A h \in Handles : gpuShaders'[h].deletes <= 1]_vars

\* C8 witness: a manager was destroyed with two stages registered after
\* a third had been unloaded.
C8_Witness ==
    /\ mgrSt = "dropped"
    /\ Len(DeletedBy(lastOp.glue)) = 2
    /\ \E h \in Handles :
          /\ gpuShaders[h].deletes = 1
          /\ \A i \in 1..Len(lastOp.glue) : lastOp.glue[i].h # h

\* C9: every registered name maps to a live stage handle; after a
\* successful load(name), has(name) is true and get(name) is the handle
\* that call created and compiled, also when the name was registered
\* before the call.
C9_NameToLiveStage ==
    /\ mgrSt = "alive"
          => \A k \in DOMAIN mgrShaders :
                /\ mgrShaders[k] \in Handles
                /\ gpuShaders[mgrShaders[k]].st = "live"
                /\ gpuShaders[mgrShaders[k]].compiled
    /\ (lastOp.op = "load_shader" /\ lastOp.res.ok)
          => /\ has_shader(mgrShaders, lastOp.key)
             /\ get_shader(mgrShaders, lastOp.key) = Some(lastOp.calls[1].h)
             /\ lastOp.calls[1].call = "create_shader"

\* C9 witness: a second load succeeded under a name that was registered.
C9_Witness ==
    /\ lastOp.op = "load_shader"
    /\ lastOp.res.ok
    /\ \E h \in LiveShaders :
          /\ h < mgrShaders[lastOp.key]
          /\ gpuShaders[h].compiled
          /\ h \notin Registered(mgrShaders)
    /\ Cardinality(DOMAIN mgrShaders) = 1

\* C10: every stage the manager created by a successful load and has not
\* deleted is reachable through its name -> stage map.
C10_NoUnreachableStage ==
    mgrSt = "alive"
       => \A h \in LiveShaders : gpuShaders[h].compiled => h \in Registered(mgrShaders)

\* C11: a load that fails (unreadable file, create_shader failure or
\* compile failure) returns an error and leaves the name -> stage map as
\* it was, so a name not registered before is not registered after; an
\* I/O failure comes before any GPU call and makes no shader object; the
\* error of a compile failure is the shader info log the driver returned.
C11_FailedLoad ==
    [][(lastOp'.op = "load_shader" /\ ~lastOp'.res.ok)
          => /\ mgrShaders' = mgrShaders
             /\ ~has_shader(mgrShaders, lastOp'.key) => ~has_shader(mgrShaders', lastOp'.key)
             /\ lastOp'.res.err = "io"
                   => /\ lastOp'.calls = <<>>
                      /\ gpuShaders' = gpuShaders
                      /\ nextShader' = nextShader
             /\ CallsOf(lastOp'.calls, {"compile_shader"}) # <<>>
                   => /\ Len(CallsOf(lastOp'.calls, {"get_shader_info_log"})) = 1
                      /\ lastOp'.res =
                            Err(CallsOf(lastOp'.calls, {"get_shader_info_log"})[1].name)
                      /\ lastOp'.res.err \in InfoLogs]_vars

\* C11 witness: a load failed at the compile step under a name that is
\* not registered, in a manager that has another name registered.
C11_Witness ==
    /\ lastOp.op = "load_shader"
    /\ ~lastOp.res.ok
    /\ CallsOf(lastOp.calls, {"get_shader_info_log"}) # <<>>
    /\ ~has_shader(mgrShaders, lastOp.key)
    /\ mgrShaders # EmptyMap

\* C12: a load that fails at the compile step deletes the shader object
\* it created, so no shader object that failed to compile stays live.
C12_FailedCompileReleased ==
    \A h \in Handles : gpuShaders[h].st = "live" => gpuShaders[h].compiled

\* C13: unload_shader of a registered name issues exactly one
\* delete_shader, of that name's handle, and removes the entry, leaving
\* every other entry as it was; of an unregistered name it issues no GPU
\* call and changes nothing. A successful load, also under a name that
\* was unloaded before, registers a stage that did not exist before.
C13_Unload ==
    [][/\ lastOp'.op = "unload_shader"
             => IF has_shader(mgrShaders, lastOp'.key) THEN
                    /\ lastOp'.calls =
                          <<Call("delete_shader", NoProg, mgrShaders[lastOp'.key], "")>>
                    /\ ~has_shader(mgrShaders', lastOp'.key)
                    /\ get_shader(mgrShaders', lastOp'.key) = None
                    /\ DOMAIN mgrShaders' = DOMAIN mgrShaders \ {lastOp'.key}
                    /\ \A k \in DOMAIN mgrShaders' : mgrShaders'[k] = mgrShaders[k]
                    /\ gpuShaders'[mgrShaders[lastOp'.key]].st = "deleted"
                ELSE
                    /\ lastOp'.calls = <<>>
                    /\ mgrShaders' = mgrShaders
                    /\ gpuShaders' = gpuShaders
       /\ (lastOp'.op = "load_shader" /\ lastOp'.res.ok)
             => /\ has_shader(mgrShaders', lastOp'.key)
                /\ gpuShaders[mgrShaders'[lastOp'.key]].st = "none"
                /\ gpuShaders'[mgrShaders'[lastOp'.key]].st = "live"]_vars

\* C13 witness: one of two registered names was unloaded.
C13_Witness ==
    /\ lastOp.op = "unload_shader"
    /\ lastOp.calls # <<>>
    /\ ~has_shader(mgrShaders, lastOp.key)
    /\ Cardinality(DOMAIN mgrShaders) = 1
    /\ \A k \in DOMAIN mgrShaders : gpuShaders[mgrShaders[k]].st = "live"

\* C14: attach_shader of a name registered in the program's manager
\* issues exactly one GPU attach_shader of that stage and appends its
\* handle to the attached list, duplicates included; of an unregistered
\* name it issues no GPU call, logs nothing and changes nothing. Linked
\* or not, it leaves the linked flag and the uniform table as they were,
\* and no step of a living program removes an entry from the list.
C14_Attach ==
    [][\A p \in Progs :
        /\ StepOf("attach_shader", p)
              => /\ prog'[p].linked = prog[p].linked
                 /\ prog'[p].uniform_locations = prog[p].uniform_locations
                 /\ lastOp'.res = Ok
                 /\ lastOp'.logs = <<>>
                 /\ IF has_shader(mgrShaders, lastOp'.key) THEN
                        /\ lastOp'.calls =
                              <<Call("attach_shader", p, mgrShaders[lastOp'.key], "")>>
                        /\ prog'[p].shaders =
                              Append(prog[p].shaders, mgrShaders[lastOp'.key])
                    ELSE
                        /\ lastOp'.calls = <<>>
                        /\ prog'[p] = prog[p]
        /\ (prog[p].st = "alive" /\ prog'[p].st = "alive")
              => /\ Len(prog'[p].shaders) >= Len(prog[p].shaders)
                 /\ SubSeq(prog'[p].shaders, 1, Len(prog[p].shaders)) = prog[p].shaders]_vars

\* C14 witness: a stage was attached to a Linked program that already
\* had the same stage in its list.
C14_Witness ==
    \E p \in Progs :
        /\ prog[p].st = "alive"
        /\ prog[p].linked
        /\ lastOp.op = "attach_shader"
        /\ lastOp.calls # <<>>
        /\ Len(prog[p].shaders) = 2
        /\ prog[p].shaders[1] = prog[p].shaders[2]

\* The handles of the calls of function `fn` in `calls`, in order.
HandlesOf(calls, fn) ==
    [i \in 1..Len(CallsOf(calls, {fn})) |-> CallsOf(calls, {fn})[i].h]

\* The set of the elements of a sequence.
Range(q) == {q[i] : i \in 1..Len(q)}

\* The GPU buffers and vertex arrays that are created and not deleted.
LiveBuffers == {b \in Buffers : gpuBuffers[b].st = "live"}
LiveVertexArrays == {v \in VertexArrays : gpuVertexArrays[v].st = "live"}

\* The step constructs a TriangleMesh successfully.
MeshBuilt == mesh.st = "none" /\ mesh'.st = "alive"

\* C15: the buffer list of a constructed mesh is exactly the buffers
\* created for it; a release (delete_buffers, by itself or from Drop)
\* issues exactly one delete_buffer per entry of the list and empties
\* it; a release of a mesh whose list is empty issues no GPU call and
\* returns normally; no buffer is ever deleted twice.
C15_MeshTeardown ==
    [][/\ MeshBuilt
             => /\ mesh'.buffers = HandlesOf(lastOp'.calls, "create_buffer")
                /\ Range(mesh'.buffers) = LiveBuffers'
                /\ Cardinality(LiveBuffers') = Len(mesh'.buffers)
       /\ (mesh.st = "alive" /\ lastOp'.op \in {"delete_buffers", "drop_mesh"})
             => /\ HandlesOf(lastOp'.calls, "delete_buffer") = mesh.buffers
                /\ Len(lastOp'.calls) = Len(mesh.buffers)
                /\ mesh'.buffers = <<>>
                /\ lastOp'.res = Ok
                /\ ~lastOp'.panic
                /\ mesh.buffers = <<>> => lastOp'.calls = <<>> /\ gpuBuffers' = gpuBuffers
       /\ \A b \in Buffers : gpuBuffers'[b].deletes <= 1]_vars

\* C15 witness: a mesh with five buffers was released a second time.
C15_Witness ==
    /\ lastOp.op \in {"delete_buffers", "drop_mesh"}
    /\ lastOp.calls = <<>>
    /\ mesh.buffers = <<>>
    /\ \A b \in Buffers : gpuBuffers[b].st = "deleted" /\ gpuBuffers[b].deletes = 1

\* C16: when a create call fails during the construction of a mesh, no
\* buffer created by that construction stays live.
C16_FailedConstructionReleases ==
    mesh.st = "failed" => LiveBuffers = {}

\* C17: after a successfully constructed mesh is destroyed, none of the
\* buffers and no vertex array it created is live, and each was deleted
\* once.
C17_MeshReleasesAll ==
    mesh.st = "dropped"
       => /\ LiveBuffers = {}
          /\ LiveVertexArrays = {}
          /\ \A b \in Buffers : gpuBuffers[b].deletes <= 1
          /\ \A v \in VertexArrays : gpuVertexArrays[v].deletes <= 1

\* The calls before and from the create_vertex_array of a construction.
VaoAt(calls) == CHOOSE i \in 1..Len(calls) : calls[i].call = "create_vertex_array"
BeforeVao(calls) == SubSeq(calls, 1, VaoAt(calls) - 1)
FromVao(calls) == SubSeq(calls, VaoAt(calls), Len(calls))

\* The buffer bound to `target` after the calls calls[1..i] (0: none).
RECURSIVE BoundAt(_, _, _)
BoundAt(calls, i, target) ==
    IF i = 0 THEN 0
    ELSE IF calls[i].call = "bind_buffer" /\ calls[i].name = target THEN calls[i].h
    ELSE BoundAt(calls, i - 1, target)

\* What the buffer_data_u8_slice calls of `calls` store: <<buffer, data>>.
Stored(calls) ==
    {<<BoundAt(calls, i, calls[i].name), calls[i].val>> :
        i \in {j \in 1..Len(calls) : calls[j].call = "buffer_data_u8_slice"}}

\* The attribute slots the vertex_attrib_pointer_f32 calls of `calls`
\* wire: <<slot, buffer, components>>.
Wired(calls) ==
    {<<calls[i].h, BoundAt(calls, i, "ARRAY_BUFFER"), calls[i].val[1]>> :
        i \in {j \in 1..Len(calls) : calls[j].call = "vertex_attrib_pointer_f32"}}

\* 1 if the Option is Some, else 0.
Count(opt) == IF opt.some THEN 1 ELSE 0

\* C18: a successful construction creates 3 + [tex_coords] + [tangents]
\* buffers, filled in the order index, position, normal, texture
\* coordinates, tangents and recorded in the buffer list in that order;
\* it creates exactly one vertex array, after all buffers, which binds
\* the index buffer and wires slot 0 to the position buffer (3
\* components), slot 1 to the normal buffer (3), slot 2 to the
\* texture-coordinate buffer (2) iff supplied and slot 3 to the tangent
\* buffer (4) iff supplied.
C18_ConstructionOrder ==
    [][MeshBuilt =>
        LET a == lastOp'.args
            calls == lastOp'.calls
            b == mesh'.buffers
            n == 3 + Count(a.maybe_tex_coords) + Count(a.maybe_tangents)
        IN /\ Len(b) = n
           /\ HandlesOf(calls, "create_buffer") = b
           /\ Cardinality(Range(b)) = n
           /\ Len(CallsOf(calls, {"create_vertex_array"})) = 1
           /\ CallsOf(FromVao(calls), {"create_buffer", "buffer_data_u8_slice"}) = <<>>
           /\ HandlesOf(calls, "create_vertex_array") = <<mesh'.vertex_array>>
           /\ Stored(BeforeVao(calls)) =
                 {<<b[1], a.indices>>, <<b[2], a.points>>, <<b[3], a.normals>>}
                 \cup (IF a.maybe_tex_coords.some
                       THEN {<<b[4], a.maybe_tex_coords.v>>} ELSE {})
                 \cup (IF a.maybe_tangents.some
                       THEN {<<b[n], a.maybe_tangents.v>>} ELSE {})
           /\ FromVao(calls)[2] = Call("bind_vertex_array", NoProg, mesh'.vertex_array, "")
           /\ BoundAt(FromVao(calls), Len(FromVao(calls)), "ELEMENT_ARRAY_BUFFER") = b[1]
           /\ Wired(FromVao(calls)) =
                 {<<0, b[2], 3>>, <<1, b[3], 3>>}
                 \cup (IF a.maybe_tex_coords.some THEN {<<2, b[4], 2>>} ELSE {})
                 \cup (IF a.maybe_tangents.some THEN {<<3, b[n], 4>>} ELSE {})
           /\ Range(HandlesOf(calls, "enable_vertex_attrib_array")) =
                 {0, 1} \cup (IF a.maybe_tex_coords.some THEN {2} ELSE {})
                        \cup (IF a.maybe_tangents.some THEN {3} ELSE {})]_vars

\* C18 witness: a mesh was constructed with tangents and without
\* texture coordinates.
C18_Witness ==
    /\ mesh.st = "alive"
    /\ lastOp.op = "new_mesh"
    /\ lastOp.args.maybe_tangents.some
    /\ ~lastOp.args.maybe_tex_coords.some
    /\ Len(mesh.buffers) = 4

\* The last operation was new_torus.
TorusMade == lastOp.op = "new_torus"

\* C19: for num_sides = S >= 3 and num_rings = R >= 3 the generator
\* produces 3*S*(R+1) position floats, 3*S*(R+1) normal floats,
\* 2*S*(R+1) texture-coordinate floats, 6*S*R indices, each below
\* S*(R+1), and no tangents; S = R = 4 gives 20 vertices and 96 indices.
C19_TorusCounts ==
    (TorusMade /\ lastOp.args.sides >= 3 /\ lastOp.args.rings >= 3)
       => LET a == lastOp.args
              S == a.sides
              R == a.rings
          IN /\ Len(a.points) = 3 * S * (R + 1)
             /\ Len(a.normals) = 3 * S * (R + 1)
             /\ a.maybe_tex_coords.some
             /\ Len(a.maybe_tex_coords.v) = 2 * S * (R + 1)
             /\ Len(a.indices) = 6 * S * R
             /\ \A i \in 1..Len(a.indices) :
                   a.indices[i] >= 0 /\ a.indices[i] < S * (R + 1)
             /\ ~a.maybe_tangents.some
             /\ (S = 4 /\ R = 4)
                   => /\ Len(a.points) = 3 * 20
                      /\ Len(a.indices) = 96
                      /\ \A i \in 1..96 : a.indices[i] < 20
             /\ mesh.st = "alive"
                   => /\ mesh.vertex_count = 6 * S * R
                      /\ Len(mesh.buffers) = 4

\* C19 witness: new_torus with num_sides = num_rings = 4 returned a mesh.
C19_Witness ==
    /\ TorusMade
    /\ lastOp.args.sides = 4
    /\ lastOp.args.rings = 4
    /\ mesh.st = "alive"
    /\ Len(lastOp.args.indices) = 96

\* C20: the index array is num_sides*num_rings quads in ring-major
\* order: the six indices at offset 6*(r*num_sides + s) are the vertices
\* (r,s), (r+1,s), (r+1,s+1), (r,s), (r+1,s+1), (r,s+1), where vertex
\* (ring, side) is ring*num_sides + side and s+1 is taken modulo
\* num_sides; the ring is never wrapped, so the last band joins ring
\* num_rings-1 to ring num_rings and has no vertex of ring 0.
C20_TorusQuads ==
    TorusMade
       => LET a == lastOp.args
              S == a.sides
              R == a.rings
              V(ring, side) == ring * S + side
          IN /\ \A r \in 0..(R - 1), s \in 0..(S - 1) :
                   SubSeq(a.indices, 6 * (r * S + s) + 1, 6 * (r * S + s) + 6)
                      = <<V(r, s), V(r + 1, s), V(r + 1, (s + 1) % S),
                          V(r, s), V(r + 1, (s + 1) % S), V(r, (s + 1) % S)>>
             /\ (R >= 2 /\ S >= 1)
                   => \A i \in (6 * (R - 1) * S + 1)..(6 * R * S) :
                         a.indices[i] >= (R - 1) * S

\* C20 witness: new_torus made a torus of 3 sides and 4 rings, whose last
\* band reaches the duplicated ring.
C20_Witness ==
    /\ TorusMade
    /\ lastOp.args.sides = 3
    /\ lastOp.args.rings = 4
    /\ Len(lastOp.args.indices) = 72
    /\ lastOp.args.indices[72] = 3 * 3
    /\ lastOp.args.indices[71] = 4 * 3

\* The upload call set_uniform_value is to issue for a GlslValue tag.
UploadKind(tag) ==
    CASE tag = "Float32" -> "uniform_1_f32"
      [] tag = "Float32Vec2" -> "uniform_2_f32"
      [] tag = "Float32Vec3" -> "uniform_3_f32"
      [] tag = "Float32Vec4" -> "uniform_4_f32"
      [] tag = "Int32" -> "uniform_1_i32"
      [] tag = "UnsignedInt32" -> "uniform_1_u32"
      [] tag = "Bool" -> "uniform_1_u32"
      [] tag = "Float32Mat2" -> "uniform_matrix_2_f32_slice"
      [] tag = "Float32Mat3" -> "uniform_matrix_3_f32_slice"
      [] tag = "Float32Mat4" -> "uniform_matrix_4_f32_slice"

\* The number of components a GlslValue tag carries.
Components(tag) ==
    CASE tag \in {"Float32", "Int32", "UnsignedInt32", "Bool"} -> 1
      [] tag = "Float32Vec2" -> 2
      [] tag = "Float32Vec3" -> 3
      [] tag \in {"Float32Vec4", "Float32Mat2"} -> 4
      [] tag = "Float32Mat3" -> 9
      [] tag = "Float32Mat4" -> 16

\* The step sets a uniform of program p whose name is in the table.
SetsKnown(p) ==
    /\ StepOf("set_uniform_value", p)
    /\ lastOp'.key \in DOMAIN prog[p].uniform_locations

\* C21: for a name in the uniform table and a value other than Float64,
\* set_uniform_value issues exactly one GPU call, the upload call of the
\* value's tag, with the value's components as they are (1 for true and
\* 0 for false for a Bool; a matrix not transposed) and the stored
\* location, also when that location is absent; it logs nothing.
C21_TypedUpload ==
    [][\A p \in Progs :
        (SetsKnown(p) /\ lastOp'.value.tag # "Float64")
           => /\ Len(lastOp'.calls) = 1
              /\ lastOp'.calls[1].call = UploadKind(lastOp'.value.tag)
              /\ lastOp'.calls[1].loc = prog[p].uniform_locations[lastOp'.key]
              /\ Len(lastOp'.calls[1].val) = Components(lastOp'.value.tag)
              /\ lastOp'.calls[1].val =
                    IF lastOp'.value.tag = "Bool"
                    THEN <<IF lastOp'.value.b THEN 1 ELSE 0>>
                    ELSE lastOp'.value.data
              /\ lastOp'.value.tag \in {"Float32Mat2", "Float32Mat3", "Float32Mat4"}
                    => lastOp'.calls[1].name = "no transpose"
              /\ lastOp'.logs = <<>>
              /\ ~lastOp'.panic
              /\ prog' = prog]_vars

\* C21 witness: a Float32Mat3 was set under a name whose stored location
\* is absent, and the upload was issued.
C21_Witness ==
    \E p \in Progs :
        /\ prog[p].st = "alive"
        /\ lastOp.op = "set_uniform_value"
        /\ lastOp.key \in DOMAIN prog[p].uniform_locations
        /\ ~prog[p].uniform_locations[lastOp.key].some
        /\ lastOp.value.tag = "Float32Mat3"
        /\ lastOp.calls # <<>>

C23_TableAfterLink ==
    [][\A p \in Progs :
        (StepOf("link", p) /\ ~prog[p].linked /\ lastOp'.res.ok)
           => /\ DOMAIN prog'[p].uniform_locations = ActiveNames(lastOp'.args.act)
              /\ \A n \in DOMAIN prog'[p].uniform_locations :
                    prog'[p].uniform_locations[n] = lastOp'.args.lc[n]
              /\ HandlesOf(lastOp'.calls, "get_active_uniform")
                    = [i \in 1..Len(lastOp'.args.act) |-> i - 1]]_vars

\* C23 witness: a link succeeded for which the driver had nothing at
\* index 0 and, at index 1, a uniform without a location.
C23_Witness ==
    \E p \in Progs :
        /\ prog[p].st = "alive"
        /\ prog[p].linked
        /\ lastOp.op = "link"
        /\ lastOp.calls # <<>>
        /\ Len(lastOp.args.act) = 2
        /\ ~lastOp.args.act[1].some
        /\ lastOp.args.act[2].some
        /\ DOMAIN prog[p].uniform_locations = {lastOp.args.act[2].v.name}
        /\ ~prog[p].uniform_locations[lastOp.args.act[2].v.name].some

\* The step is a render() of the mesh.
Renders == lastOp'.op = "render" /\ mesh.st = "alive"

\* C24: render() issues exactly two GPU calls, in order: it binds this
\* mesh's vertex array, then draws indexed triangles once with as many
\* elements as indices were given to the constructor, from offset 0. It
\* activates no program and changes nothing of the mesh.
C24_Render ==
    [][/\ MeshBuilt => mesh'.vertex_count = Len(lastOp'.args.indices)
       /\ mesh.st = "alive" => mesh'.vertex_count = mesh.vertex_count
                               /\ mesh'.vertex_array = mesh.vertex_array
       /\ Renders =>
            /\ Len(lastOp'.calls) = 2
            /\ lastOp'.calls[1].call = "bind_vertex_array"
            /\ lastOp'.calls[1].h = mesh.vertex_array
            /\ lastOp'.calls[2].call = "draw_elements"
            /\ lastOp'.calls[2].name = "TRIANGLES UNSIGNED_INT"
            /\ lastOp'.calls[2].h = mesh.vertex_count
            /\ lastOp'.calls[2].val = <<0>>
            /\ CallsOf(lastOp'.calls, {"use_program"}) = <<>>
            /\ mesh' = mesh
            /\ UNCHANGED <<gpuBuffers, gpuVertexArrays, gpuProgs, prog>>]_vars

\* C24 witness: a torus of 4 sides and 4 rings, 96 indices, was rendered
\* after its buffers were deleted.
C24_Witness ==
    /\ lastOp.op = "render"
    /\ mesh.st = "alive"
    /\ mesh.vertex_count = 96
    /\ mesh.buffers = <<>>
    /\ lastOp.calls # <<>>

\* Every handle in the attached list of an existing program is a live
\* shader object.
AttachedLive(g, pp) ==
    \A p \in Alive(pp) :
        \A i \in 1..Len(pp[p].shaders) : g[pp[p].shaders[i]].st = "live"

\* The step destroys program p.
Destroys(p) == prog[p].st = "alive" /\ prog'[p].st = "dropped"

\* C27: every handle in a program's attached list is a live shader
\* object for as long as the program exists, also when the program
\* detaches it on destruction; while any program made from the manager
\* exists the manager is neither loaded into, unloaded from nor
\* destroyed, and a shader object is deleted only once all programs are
\* destroyed (for the last of them, after its detach calls).
C27_StagesOutlivePrograms ==
    [][/\ AttachedLive(gpuShaders, prog)
       /\ AttachedLive(gpuShaders', prog')
       /\ \A p \in Progs :
            Destroys(p) =>
                /\ HandlesOf(lastOp'.calls, "detach_shader") = prog[p].shaders
                /\ \A i \in 1..Len(prog[p].shaders) :
                      gpuShaders[prog[p].shaders[i]].st = "live"
                /\ CallsOf(lastOp'.calls, {"delete_shader"}) = <<>>
       /\ (lastOp'.op \in {"load_shader", "unload_shader"} /\ lastOp' # lastOp)
            => Alive(prog) = {}
       /\ (mgrShaders' # mgrShaders \/ nextShader' # nextShader)
            => Alive(prog') = {}
       /\ (mgrSt = "alive" /\ mgrSt' = "dropped") => Alive(prog') = {}
       /\ \A h \in Handles :
            gpuShaders'[h] # gpuShaders[h] => Alive(prog') = {}]_vars

\* C27 witness: of two programs sharing the manager one was destroyed
\* while the other, with a stage attached, still exists and holds the
\* last reference to the manager.
C27_Witness ==
    /\ lastOp.op = "drop_program"
    /\ prog["p1"].st = "dropped"
    /\ prog["p2"].st = "alive"
    /\ prog["p2"].shaders # <<>>
    /\ ~appRef
    /\ mgrSt = "alive"

\* C25: the version gate panics exactly if the detected (major, minor)
\* is lexicographically below (4, 3) and returns normally otherwise.
C25_VersionGate ==
    [][(app.pc = "detected" /\ lastOp'.op = "assert_version") =>
          LET below == \/ app.version.major < 4
                       \/ app.version.major = 4 /\ app.version.minor < 3
          IN /\ lastOp'.panic <=> below
             /\ app'.pc = IF below THEN "panicked" ELSE "checked"]_vars

\* C25 witness: the gate panicked on OpenGL 4.2.
C25_Witness ==
    /\ lastOp.op = "assert_version"
    /\ lastOp.panic
    /\ app.pc = "panicked"
    /\ app.version.major = 4
    /\ app.version.minor = 2

\* The calls of `calls` that bind a vertex array or draw.
Draws(calls) == CallsOf(calls, {"bind_vertex_array", "draw_arrays", "draw_elements"})

\* C28: once a close request has been handled (program and vertex array
\* deleted, exit requested), no later event handler binds the deleted
\* vertex array or draws with the deleted program, and each of the two
\* is deleted at most once, in whatever order events arrive before
\* LoopDestroyed.
C28_NoUseAfterClose ==
    [][/\ (app.pc = "running" /\ app.exit /\ app'.events > app.events)
            => \/ Draws(lastOp'.calls) = <<>>
               \/ app.vertex_array.st = "live" /\ app.program.st = "live"
       /\ app'.program.deletes <= 1
       /\ app'.vertex_array.deletes <= 1]_vars

\* Two f32 values of the generator that are certainly not identical.
Differ(x, y) ==
    \/ x.val.k = "exact" /\ y.val.k = "exact" /\ x.val # y.val
    \/ IsZero(x.val) /\ y.val.k = "nonzero"
    \/ x.val.k = "nonzero" /\ IsZero(y.val)

\* C26: in the torus, for every side s the vertex of the duplicated ring
\* num_rings has the position and the normal of the ring-0 vertex of
\* that side, while its texture u is 1.0 and that of ring 0 is 0.0.
C26_SeamRing ==
    TorusMade =>
        LET S == lastOp.args.sides
            R == lastOp.args.rings
            P == lastOp.args.points
            N == lastOp.args.normals
            T == lastOp.args.maybe_tex_coords.v
        IN (S >= 1 /\ R >= 1) =>
              \A s \in 0..(S - 1) :
                 /\ \A c \in 1..3 :
                       /\ ~Differ(P[3 * (R * S + s) + c], P[3 * s + c])
                       /\ ~Differ(N[3 * (R * S + s) + c], N[3 * s + c])
                 /\ T[2 * (R * S + s) + 1].val = One32
                 /\ T[2 * s + 1].val = Zero32

\* The texture half of C26: the duplicated ring has u = 1.0 exactly and
\* ring 0 has u = 0.0.
SeamTexture ==
    TorusMade =>
        LET S == lastOp.args.sides
            R == lastOp.args.rings
            T == lastOp.args.maybe_tex_coords.v
        IN (S >= 1 /\ R >= 1) =>
              \A s \in 0..(S - 1) :
                 /\ T[2 * (R * S + s) + 1].val = One32
                 /\ T[2 * s + 1].val = Zero32

====
